---- MODULE Spec2Model ----
(***************************************************************************)
(* Region fusion engine of src/layout.py: consolidation of sparse and      *)
(* layout regions, ID assignment, degenerate-page collapse, reading-order  *)
(* reconciliation, gap-filling expansion and table decomposition.          *)
(*                                                                         *)
(* A box is the Python list of the code, as a tuple:                       *)
(*   <<x1, y1, x2, y2, label>>                 after extraction            *)
(*   <<x1, y1, x2, y2, label, id>>             after assign_boxIDs         *)
(*   <<x1, y1, x2, y2, label, id, position>>   after order reconciliation  *)
(*   <<x1, y1, x2, y2, "a", filename, row, col>>  a table cell             *)
(* Coordinates are integer pixels.  Python index k is TLA+ index k+1.      *)
(***************************************************************************)
EXTENDS Integers, Sequences, FiniteSets, TLC

VARIABLES
    pc,                                   \* position in get_layout's per-page processing
    sparse_line_regions,                  \* extracted sparse regions of the page
    layout_regions,                       \* extracted layout regions of the page
    filtered_adjusted_sparse_line_regions, \* sparse regions without the Text ones
    consolidated_regions,                 \* result of consolidate_regions
    consolidated_regions_with_ids,        \* after assign_boxIDs / the >= 255 guard
    order_prediction,                     \* order_prediction.bboxes of the page
    ordered_original_layout_regions_scaled, \* reconciled, sorted regions
    image_bbox,                           \* [0, 0, width, height]
    adjusted_boxes_vertical,              \* vertical-growth copy
    adjusted_boxes_horizontal,            \* horizontal-growth copy
    final_adjusted_boxes,                 \* result of adjust_bounding_boxes_final
    v_sweeps,                             \* iterations of the vertical while loop so far
    h_sweeps,                             \* iterations of the horizontal while loop so far
    first_result,                         \* result of the first expansion, kept for a second run
    sparse_line_bboxes,                   \* sparse_line_prediction.bboxes (candidate cells)
    page_number,                          \* index of the page in its batch
    table_cells_list,                     \* candidate cells of each Table region
    table_positions,                      \* (position, rectangle) of each Table region
    table_outcome,                        \* what batch_table_recognition did
    final_regions,                        \* final region list of the page
    page_folders,                         \* number of pages of the batch
    batch_predictions,                    \* per page: what the detectors returned
    original_layout_regions_scaled_list,  \* per page: the regions with ids
    order_predictions,                    \* per page: what batch_ordering returned
    original_layout_regions_scaled_with_position_list,  \* result of get_layout
    batch_raised,                         \* the predictor calls that raised
    raw_shape,                            \* (raw_width, raw_height) of the export raster
    export_index,                         \* the region the export loop is at
    written,                              \* the crops saved, in order
    skipped,                              \* the regions skipped with a warning
    page_count,                           \* doc.page_count of the input PDF
    chunk_size,                           \* pages per chunk
    num_chunks,                           \* number of chunks process_single_document runs
    chunk_num,                            \* the chunk the loop is at
    pages_in_chunks                       \* per chunk run: the pages process_pdf prepared

vars == <<pc, sparse_line_regions, layout_regions,
          filtered_adjusted_sparse_line_regions, consolidated_regions,
          consolidated_regions_with_ids, order_prediction,
          ordered_original_layout_regions_scaled, image_bbox,
          adjusted_boxes_vertical, adjusted_boxes_horizontal,
          final_adjusted_boxes, v_sweeps, h_sweeps, first_result,
          sparse_line_bboxes, page_number, table_cells_list, table_positions,
          table_outcome, final_regions, page_folders, batch_predictions,
          original_layout_regions_scaled_list, order_predictions,
          original_layout_regions_scaled_with_position_list, batch_raised,
          raw_shape, export_index, written, skipped,
          page_count, chunk_size, num_chunks, chunk_num, pages_in_chunks>>

chunkVars == <<page_count, chunk_size, num_chunks, chunk_num, pages_in_chunks>>

fuseVars == <<sparse_line_regions, layout_regions,
              filtered_adjusted_sparse_line_regions, consolidated_regions,
              consolidated_regions_with_ids>>
orderVars == <<order_prediction, ordered_original_layout_regions_scaled>>
expandVars == <<image_bbox, adjusted_boxes_vertical, adjusted_boxes_horizontal,
                final_adjusted_boxes, v_sweeps, h_sweeps, first_result>>
tableVars == <<sparse_line_bboxes, page_number, table_cells_list, table_positions,
               table_outcome, final_regions>>
exportVars == <<raw_shape, export_index, written, skipped>>
batchVars == <<page_folders, batch_predictions, original_layout_regions_scaled_list,
               order_predictions, original_layout_regions_scaled_with_position_list,
               batch_raised>>

(***************************************************************************)
(* Bounds of the model.                                                    *)
(***************************************************************************)
PageW == 3
PageH == 3
BoxCounts == {1, 2}

None == <<>>

\* the values of the variables a stage has not yet written
FuseIdle ==
    /\ sparse_line_regions = None
    /\ layout_regions = None
    /\ filtered_adjusted_sparse_line_regions = None
    /\ consolidated_regions = None
    /\ consolidated_regions_with_ids = None
OrderIdle ==
    /\ order_prediction = None
    /\ ordered_original_layout_regions_scaled = None
ExpandIdle ==
    /\ adjusted_boxes_vertical = None
    /\ adjusted_boxes_horizontal = None
    /\ final_adjusted_boxes = None
    /\ v_sweeps = 0
    /\ h_sweeps = 0
    /\ first_result = None
TableIdle ==
    /\ sparse_line_bboxes = None
    /\ page_number = 0
    /\ table_cells_list = None
    /\ table_positions = None
    /\ table_outcome = [kind |-> "pending"]
    /\ final_regions = None
ExportIdle ==
    /\ raw_shape = None
    /\ export_index = 0
    /\ written = None
    /\ skipped = None
ChunkIdle ==
    /\ page_count = 0
    /\ chunk_size = 1
    /\ num_chunks = 0
    /\ chunk_num = 0
    /\ pages_in_chunks = None
BatchIdle ==
    /\ page_folders = 0
    /\ batch_predictions = None
    /\ original_layout_regions_scaled_list = None
    /\ order_predictions = None
    /\ original_layout_regions_scaled_with_position_list = None
    /\ batch_raised = {}

Max(a, b) == IF a >= b THEN a ELSE b
Abs(a) == IF a >= 0 THEN a ELSE -a
Indices(s) == 1..Len(s)
Rect(box) == <<box[1], box[2], box[3], box[4]>>

\* Rectangles with x1 < x2, y1 < y2 inside a w x h page.
RectsIn(w, h) ==
    {r \in (0..w) \X (0..h) \X (0..w) \X (0..h) : r[1] < r[3] /\ r[2] < r[4]}

(***************************************************************************)
(* Overlap and containment tests.                                          *)
(***************************************************************************)
valueInRange(value, min_val, max_val) == min_val <= value /\ value <= max_val

rectOverlap(box1, box2) ==
    LET xOverlap == valueInRange(box1[1], box2[1], box2[3])
                      \/ valueInRange(box2[1], box1[1], box1[3])
        yOverlap == valueInRange(box1[2], box2[2], box2[4])
                      \/ valueInRange(box2[2], box1[2], box1[4])
    IN xOverlap /\ yOverlap

encapsulation_by_overlap(primary_box, secondary_box) ==
    rectOverlap(primary_box, secondary_box)
full_encapsulation(primary_box, secondary_box) ==
    /\ primary_box[1] <= secondary_box[1]
    /\ secondary_box[1] < secondary_box[3]
    /\ secondary_box[3] <= primary_box[3]
    /\ primary_box[2] <= secondary_box[2]
    /\ secondary_box[2] < secondary_box[4]
    /\ secondary_box[4] <= primary_box[4]

(***************************************************************************)
(* Label filter, consolidator, ID assignment and the >= 255 guard.         *)
(***************************************************************************)
StructuralLabels == {"Title", "Section-header", "Page-header", "List-item"}
EncapsulatingLabels == {"Table", "Caption", "Footnote", "Page-footer"}
DegenerateLimit == 255

RECURSIVE SelectRange(_, _, _, _)
\* [s[i] for i in lo..hi if Keep(i)], by halves
SelectRange(s, Keep(_), lo, hi) ==
    IF lo > hi THEN <<>>
    ELSE IF lo = hi THEN (IF Keep(lo) THEN <<s[lo]>> ELSE <<>>)
    ELSE LET mid == (lo + hi) \div 2
         IN SelectRange(s, Keep, lo, mid) \o SelectRange(s, Keep, mid + 1, hi)

filter_text_labels(bounding_boxes) ==
    LET NotText(i) == bounding_boxes[i][5] /= "Text"
    IN SelectRange(bounding_boxes, NotText, 1, Len(bounding_boxes))

\* the condition under which consolidate_regions adds j to to_delete_from_layout;
\* the coordinates are integers, on which int() changes nothing
MarksAtEqualHeight(primary_box, secondary_box) ==
    \/ /\ primary_box[5] \in StructuralLabels
       /\ rectOverlap(Rect(primary_box), Rect(secondary_box))
       /\ 2 * Abs(primary_box[2] - primary_box[4]) >= Abs(secondary_box[2] - secondary_box[4])
    \/ /\ primary_box[5] \in EncapsulatingLabels
       /\ full_encapsulation(Rect(primary_box), Rect(secondary_box))
MarksForDeletion(primary_box, secondary_box) ==
    \/ /\ primary_box[5] \in StructuralLabels
       /\ rectOverlap(Rect(primary_box), Rect(secondary_box))
       /\ 2 * Abs(primary_box[2] - primary_box[4]) > Abs(secondary_box[2] - secondary_box[4])
    \/ /\ primary_box[5] \in EncapsulatingLabels
       /\ full_encapsulation(Rect(primary_box), Rect(secondary_box))

\* lines 117-129
layout_before_sparse(sparse, layout) ==
    LET to_delete_from_layout ==
            {j \in Indices(layout) :
                \E i \in Indices(sparse) : MarksForDeletion(sparse[i], layout[j])}
        KeepLayout(j) == j \notin to_delete_from_layout
    IN SelectRange(layout, KeepLayout, 1, Len(layout)) \o sparse
consolidate_regions(sparse, layout) ==
    LET to_delete_from_layout ==
            {j \in Indices(layout) :
                \E i \in Indices(sparse) : MarksForDeletion(sparse[i], layout[j])}
        to_delete_from_sparse == {}
        KeepSparse(i) == i \notin to_delete_from_sparse
        KeepLayout(j) == j \notin to_delete_from_layout
    IN SelectRange(sparse, KeepSparse, 1, Len(sparse))
         \o SelectRange(layout, KeepLayout, 1, Len(layout))

assign_boxIDs(bounding_boxes) ==
    [i \in Indices(bounding_boxes) |-> Append(bounding_boxes[i], i - 1)]

RECURSIVE MinCoord(_, _, _, _)
\* min(bbox[c] for bbox in bs[lo..hi]), by halves
MinCoord(bs, c, lo, hi) ==
    IF lo = hi THEN bs[lo][c]
    ELSE LET mid == (lo + hi) \div 2
             a == MinCoord(bs, c, lo, mid)
             b == MinCoord(bs, c, mid + 1, hi)
         IN IF a <= b THEN a ELSE b

RECURSIVE MaxCoord(_, _, _, _)
\* max(bbox[c] for bbox in bs[lo..hi]), by halves
MaxCoord(bs, c, lo, hi) ==
    IF lo = hi THEN bs[lo][c]
    ELSE LET mid == (lo + hi) \div 2
             a == MaxCoord(bs, c, lo, mid)
             b == MaxCoord(bs, c, mid + 1, hi)
         IN IF a >= b THEN a ELSE b

IsDegenerateAbove(n) == n > DegenerateLimit
IsDegenerate(n) == n >= DegenerateLimit

\* "if len(consolidated_regions_with_ids) >= 255" and its body
DegeneracyGuard(bs) ==
    IF IsDegenerate(Len(bs))
    THEN << <<MinCoord(bs, 1, 1, Len(bs)), MinCoord(bs, 2, 1, Len(bs)),
              MaxCoord(bs, 3, 1, Len(bs)), MaxCoord(bs, 4, 1, Len(bs)),
              "Text", 0>> >>
    ELSE bs

FilterText ==
    /\ pc = "filter"
    /\ filtered_adjusted_sparse_line_regions' = filter_text_labels(sparse_line_regions)
    /\ pc' = "consolidate"
    /\ UNCHANGED <<chunkVars, batchVars, exportVars, sparse_line_regions, layout_regions, consolidated_regions,
                   consolidated_regions_with_ids, orderVars, expandVars, tableVars>>

Consolidate ==
    /\ pc = "consolidate"
    /\ consolidated_regions' =
         consolidate_regions(filtered_adjusted_sparse_line_regions, layout_regions)
    /\ pc' = "assign"
    /\ UNCHANGED <<chunkVars, batchVars, exportVars, sparse_line_regions, layout_regions,
                   filtered_adjusted_sparse_line_regions,
                   consolidated_regions_with_ids, orderVars, expandVars, tableVars>>

AssignIDs ==
    /\ pc = "assign"
    /\ consolidated_regions_with_ids' = assign_boxIDs(consolidated_regions)
    /\ pc' = "guard"
    /\ UNCHANGED <<chunkVars, batchVars, exportVars, sparse_line_regions, layout_regions,
                   filtered_adjusted_sparse_line_regions, consolidated_regions,
                   orderVars, expandVars, tableVars>>

Guard ==
    /\ pc = "guard"
    /\ consolidated_regions_with_ids' = DegeneracyGuard(consolidated_regions_with_ids)
    /\ pc' = "order"
    /\ UNCHANGED <<chunkVars, batchVars, exportVars, sparse_line_regions, layout_regions,
                   filtered_adjusted_sparse_line_regions, consolidated_regions,
                   orderVars, expandVars, tableVars>>

(***************************************************************************)
(* Order reconciler: get_layout, lines 257-275.                            *)
(***************************************************************************)
\* coord_to_box_map: a dict keyed by rectangle, in which a later box of the
\* same rectangle replaces an earlier one
coord_to_box_map(bs) ==
    [r \in {Rect(bs[k]) : k \in Indices(bs)} |->
        bs[CHOOSE k \in Indices(bs) :
              /\ Rect(bs[k]) = r
              /\ \A m \in Indices(bs) : Rect(bs[m]) = r => m <= k]]

\* the box appended for a prediction entry that hits the map
StampWithId(original_box, position) ==
    <<original_box[1], original_box[2], original_box[3], original_box[4],
      original_box[5], original_box[6], original_box[6]>>
StampAsText(original_box, position) ==
    <<original_box[1], original_box[2], original_box[3], original_box[4],
      "Text", original_box[6], position>>
Stamp(original_box, position) ==
    <<original_box[1], original_box[2], original_box[3], original_box[4],
      original_box[5], original_box[6], position>>

RECURSIVE StampAll(_, _, _)
\* the loop over order_prediction.bboxes, from entry k on
StampAll(map, prediction, k) ==
    IF k > Len(prediction) THEN <<>>
    ELSE IF prediction[k].bbox \in DOMAIN map
         THEN <<Stamp(map[prediction[k].bbox], prediction[k].position)>>
                 \o StampAll(map, prediction, k + 1)
         ELSE StampAll(map, prediction, k + 1)

RECURSIVE InsertBeforeEqual(_, _)
InsertBeforeEqual(s, x) ==
    IF s = <<>> THEN <<x>>
    ELSE IF x[7] <= Head(s)[7] THEN <<x>> \o s
         ELSE <<Head(s)>> \o InsertBeforeEqual(Tail(s), x)

RECURSIVE InsertByPosition(_, _)
\* x put behind every box of the sorted list s whose position is not above x's
InsertByPosition(s, x) ==
    IF s = <<>> THEN <<x>>
    ELSE IF x[7] < Head(s)[7] THEN <<x>> \o s
         ELSE <<Head(s)>> \o InsertByPosition(Tail(s), x)

RECURSIVE SortByPosition(_, _)
\* list.sort(key=lambda x: x[6]), a stable sort: the first k boxes of bs, sorted
SortByPosition(bs, k) ==
    IF k = 0 THEN <<>>
    ELSE InsertByPosition(SortByPosition(bs, k - 1), bs[k])

\* batch_ordering returns the page's prediction: one entry per rectangle it
\* was given, with the positions 0..n-1 in some order; an entry's rectangle
\* is the one given or, on a miss, another one
MissRect == <<0, 0, 2, 2>>
Positions(n) == {f \in [1..n -> 0..(n - 1)] : \A a, b \in 1..n : a /= b => f[a] /= f[b]}
Predictions(coords) ==
    {[k \in Indices(coords) |-> [bbox |-> bb[k], position |-> f[k]]] :
        bb \in {g \in [Indices(coords) -> {coords[k] : k \in Indices(coords)} \cup {MissRect}] :
                  \A k \in Indices(coords) : g[k] \in {coords[k], MissRect}},
        f \in Positions(Len(coords))}

BatchOrdering ==
    /\ pc = "order"
    /\ LET vertically_swelled_layout_regions_coords ==
              [k \in Indices(consolidated_regions_with_ids) |->
                  Rect(consolidated_regions_with_ids[k])]
       IN order_prediction' \in Predictions(vertically_swelled_layout_regions_coords)
    /\ pc' = "reconcile"
    /\ UNCHANGED <<chunkVars, batchVars, exportVars, fuseVars, ordered_original_layout_regions_scaled, expandVars,
                   tableVars>>

\* a prediction in which two entries may report the same position
PredictionsWithTies(coords) ==
    {[k \in Indices(coords) |-> [bbox |-> bb[k], position |-> f[k]]] :
        bb \in {g \in [Indices(coords) -> {coords[k] : k \in Indices(coords)} \cup {MissRect}] :
                  \A k \in Indices(coords) : g[k] \in {coords[k], MissRect}},
        f \in [Indices(coords) -> 0..(Len(coords) - 1)]}

\* line 257 with a predictor that does not keep positions apart
BatchOrderingWithTies ==
    /\ pc = "order"
    /\ LET vertically_swelled_layout_regions_coords ==
              [k \in Indices(consolidated_regions_with_ids) |->
                  Rect(consolidated_regions_with_ids[k])]
       IN order_prediction' \in PredictionsWithTies(vertically_swelled_layout_regions_coords)
    /\ pc' = "reconcile"
    /\ UNCHANGED <<chunkVars, batchVars, exportVars, fuseVars, ordered_original_layout_regions_scaled,
                   expandVars, tableVars>>

Reconcile ==
    /\ pc = "reconcile"
    /\ LET appended == StampAll(coord_to_box_map(consolidated_regions_with_ids),
                                order_prediction, 1)
       IN ordered_original_layout_regions_scaled' = SortByPosition(appended, Len(appended))
    /\ pc' = "expand"
    /\ UNCHANGED <<chunkVars, batchVars, exportVars, fuseVars, order_prediction, expandVars, tableVars>>

(***************************************************************************)
(* Gap-filling expander: adjust_bounding_boxes_final.                      *)
(***************************************************************************)
PictureOnly == {"Picture"}
FrozenLabels == {"Picture", "Figure"}

\* inner for loop: does box i overlap another box of the current copy
intersection_ignored(bs, i) == FALSE
intersection_found(bs, i) ==
    \E j \in Indices(bs) : i /= j /\ rectOverlap(Rect(bs[i]), Rect(bs[j]))

GrowUpTooFar(y_1t, y_max) == IF y_1t <= y_max THEN y_1t + 1 ELSE y_1t
GrowUp(y_1t, y_max) == IF y_1t < y_max THEN y_1t + 1 ELSE y_1t

GrowDownByTwo(y_1b) == IF y_1b > 0 THEN y_1b - 2 ELSE y_1b
GrowDown(y_1b) == IF y_1b > 0 THEN y_1b - 1 ELSE y_1b

GrowLeft(x_1l) == IF x_1l > 0 THEN x_1l - 1 ELSE x_1l

GrowRightByTwo(x_1r, x_max) == IF x_1r < x_max THEN x_1r + 2 ELSE x_1r
GrowRight(x_1r, x_max) == IF x_1r < x_max THEN x_1r + 1 ELSE x_1r

\* "if not changes_made: break" of the vertical while loop
VerticalLoopOnce(changes_made) == "horizontal"
VerticalLoopForever(changes_made) == "vertical"
VerticalLoop(changes_made) == IF changes_made THEN "vertical" ELSE "horizontal"

\* "if not changes_made: break" of the horizontal while loop
HorizontalLoopOnce(changes_made) == "merge"
HorizontalLoop(changes_made) == IF changes_made THEN "horizontal" ELSE "merge"

\* body of the vertical for loop for box i: the copy and changes_made after it
VerticalStep(st, i, y_max) ==
    LET bs == st.boxes
        box1 == bs[i]
        y_1t_new == GrowUp(box1[4], y_max)
        y_1b_new == GrowDown(box1[2])
    IN IF box1[5] \in FrozenLabels THEN st
       ELSE IF intersection_found(bs, i) THEN st
       ELSE IF y_1t_new /= box1[4] \/ y_1b_new /= box1[2]
            THEN [boxes |-> [bs EXCEPT ![i] = <<box1[1], y_1b_new, box1[3], y_1t_new,
                                                  box1[5], box1[6], box1[7]>>],
                  changes_made |-> TRUE]
            ELSE st

RECURSIVE VerticalSweepFrom(_, _, _)
VerticalSweepFrom(st, i, y_max) ==
    IF i > Len(st.boxes) THEN st
    ELSE VerticalSweepFrom(VerticalStep(st, i, y_max), i + 1, y_max)

\* one iteration of the first while loop
VerticalSweep(bs, y_max) ==
    VerticalSweepFrom([boxes |-> bs, changes_made |-> FALSE], 1, y_max)

\* body of the horizontal for loop for box i
HorizontalStep(st, i, x_max) ==
    LET bs == st.boxes
        box1 == bs[i]
        x_1l_new == GrowLeft(box1[1])
        x_1r_new == GrowRight(box1[3], x_max)
    IN IF box1[5] \in FrozenLabels THEN st
       ELSE IF intersection_found(bs, i) THEN st
       ELSE IF x_1l_new /= box1[1] \/ x_1r_new /= box1[3]
            THEN [boxes |-> [bs EXCEPT ![i] = <<x_1l_new, box1[2], x_1r_new, box1[4],
                                                  box1[5], box1[6], box1[7]>>],
                  changes_made |-> TRUE]
            ELSE st

RECURSIVE HorizontalSweepFrom(_, _, _)
HorizontalSweepFrom(st, i, x_max) ==
    IF i > Len(st.boxes) THEN st
    ELSE HorizontalSweepFrom(HorizontalStep(st, i, x_max), i + 1, x_max)

\* one iteration of the second while loop
HorizontalSweep(bs, x_max) ==
    HorizontalSweepFrom([boxes |-> bs, changes_made |-> FALSE], 1, x_max)

\* the merge of one pair of zip(adjusted_boxes_vertical, adjusted_boxes_horizontal)
MergeBoxFromHorizontal(box_vertical, box_horizontal) == box_horizontal
MergeBox(box_vertical, box_horizontal) ==
    IF box_vertical[5] \in FrozenLabels THEN box_vertical
    ELSE <<box_horizontal[1], box_vertical[2], box_horizontal[3], box_vertical[4],
           box_vertical[5], box_vertical[6], box_vertical[7]>>

\* entry of adjust_bounding_boxes_final: the two copies
StartExpansion(bs) ==
    /\ adjusted_boxes_vertical' = bs
    /\ adjusted_boxes_horizontal' = bs
    /\ final_adjusted_boxes' = None
    /\ v_sweeps' = 0
    /\ h_sweeps' = 0

\* one sweep of the vertical while loop; the loop is left when nothing changed
VSweepInPlace ==
    /\ pc = "vertical"
    /\ LET r == VerticalSweep(adjusted_boxes_vertical, image_bbox[4])
       IN /\ adjusted_boxes_vertical' = r.boxes
          /\ ordered_original_layout_regions_scaled' =
                IF first_result = None THEN r.boxes
                ELSE ordered_original_layout_regions_scaled
          /\ first_result' = IF first_result = None THEN None ELSE r.boxes
          /\ pc' = VerticalLoop(r.changes_made)
    /\ v_sweeps' = v_sweeps + 1
    /\ UNCHANGED <<chunkVars, batchVars, exportVars, fuseVars, order_prediction, tableVars, image_bbox,
                   adjusted_boxes_horizontal, final_adjusted_boxes, h_sweeps>>
VSweep ==
    /\ pc = "vertical"
    /\ LET r == VerticalSweep(adjusted_boxes_vertical, image_bbox[4])
       IN /\ adjusted_boxes_vertical' = r.boxes
          /\ pc' = VerticalLoop(r.changes_made)
    /\ v_sweeps' = v_sweeps + 1
    /\ UNCHANGED <<chunkVars, batchVars, exportVars, fuseVars, orderVars, tableVars, image_bbox,
                   adjusted_boxes_horizontal, final_adjusted_boxes, h_sweeps,
                   first_result>>

\* one sweep of the horizontal while loop
HSweep ==
    /\ pc = "horizontal"
    /\ LET r == HorizontalSweep(adjusted_boxes_horizontal, image_bbox[3])
       IN /\ adjusted_boxes_horizontal' = r.boxes
          /\ pc' = HorizontalLoop(r.changes_made)
    /\ h_sweeps' = h_sweeps + 1
    /\ UNCHANGED <<chunkVars, batchVars, exportVars, fuseVars, orderVars, tableVars, image_bbox,
                   adjusted_boxes_vertical, final_adjusted_boxes, v_sweeps,
                   first_result>>

\* the merge loop and the return
Merge ==
    /\ pc = "merge"
    /\ final_adjusted_boxes' =
         [k \in Indices(adjusted_boxes_vertical) |->
            MergeBox(adjusted_boxes_vertical[k], adjusted_boxes_horizontal[k])]
    /\ pc' = "expanded"
    /\ UNCHANGED <<chunkVars, batchVars, exportVars, fuseVars, orderVars, tableVars, image_bbox,
                   adjusted_boxes_vertical, adjusted_boxes_horizontal,
                   v_sweeps, h_sweeps, first_result>>

\* a second call of adjust_bounding_boxes_final, on the result of the first
Reapply ==
    /\ pc = "expanded"
    /\ first_result = None
    /\ first_result' = final_adjusted_boxes
    /\ StartExpansion(final_adjusted_boxes)
    /\ pc' = "vertical"
    /\ UNCHANGED <<chunkVars, batchVars, exportVars, fuseVars, orderVars, tableVars, image_bbox>>

\* The two while loops scheduled freely: a pass that has not yet reached its
\* fixed point may run its next sweep whatever the other pass has done.
\* pc is "concurrent" while both passes run, "concurrent_v" or
\* "concurrent_h" while only the vertical or horizontal one still does.
PassDone(other) == IF pc = "concurrent" THEN other ELSE "merge"

\* one sweep of the first while loop, at any point of the second
ConcurrentVSweep ==
    /\ pc \in {"concurrent", "concurrent_v"}
    /\ LET r == VerticalSweep(adjusted_boxes_vertical, image_bbox[4])
       IN /\ adjusted_boxes_vertical' = r.boxes
          /\ pc' = IF VerticalLoop(r.changes_made) = "vertical" THEN pc
                   ELSE PassDone("concurrent_h")
    /\ v_sweeps' = v_sweeps + 1
    /\ UNCHANGED <<chunkVars, batchVars, exportVars, fuseVars, orderVars, tableVars, image_bbox,
                   adjusted_boxes_horizontal, final_adjusted_boxes, h_sweeps,
                   first_result>>

\* a horizontal sweep that tests overlap on the rows of the vertical copy
ConcurrentHSweepOnSharedRows ==
    /\ pc \in {"concurrent", "concurrent_h"}
    /\ LET shared == [k \in Indices(adjusted_boxes_horizontal) |->
                        <<adjusted_boxes_horizontal[k][1], adjusted_boxes_vertical[k][2],
                          adjusted_boxes_horizontal[k][3], adjusted_boxes_vertical[k][4],
                          adjusted_boxes_horizontal[k][5], adjusted_boxes_horizontal[k][6],
                          adjusted_boxes_horizontal[k][7]>>]
           r == HorizontalSweep(shared, image_bbox[3])
       IN /\ adjusted_boxes_horizontal' = r.boxes
          /\ pc' = IF HorizontalLoop(r.changes_made) = "horizontal" THEN pc
                   ELSE PassDone("concurrent_v")
    /\ h_sweeps' = h_sweeps + 1
    /\ UNCHANGED <<chunkVars, batchVars, exportVars, fuseVars, orderVars, tableVars, image_bbox,
                   adjusted_boxes_vertical, final_adjusted_boxes, v_sweeps,
                   first_result>>
\* one sweep of the second while loop, at any point of the first
ConcurrentHSweep ==
    /\ pc \in {"concurrent", "concurrent_h"}
    /\ LET r == HorizontalSweep(adjusted_boxes_horizontal, image_bbox[3])
       IN /\ adjusted_boxes_horizontal' = r.boxes
          /\ pc' = IF HorizontalLoop(r.changes_made) = "horizontal" THEN pc
                   ELSE PassDone("concurrent_v")
    /\ h_sweeps' = h_sweeps + 1
    /\ UNCHANGED <<chunkVars, batchVars, exportVars, fuseVars, orderVars, tableVars, image_bbox,
                   adjusted_boxes_vertical, final_adjusted_boxes, v_sweeps,
                   first_result>>

(***************************************************************************)
(* Table decomposer: get_layout, lines 293-328.                            *)
(***************************************************************************)
IsTable(region) == region[5] = "Table"

\* [region for region in regions if region[4] == 'Table']
TableRegions(regions) ==
    LET Keep(i) == IsTable(regions[i]) IN SelectRange(regions, Keep, 1, Len(regions))

\* the regions the loop of lines 298-309 appends to final_regions
OtherRegions(regions) ==
    LET Keep(i) == ~IsTable(regions[i]) IN SelectRange(regions, Keep, 1, Len(regions))

\* table_cells of one Table region: the enclosed line boxes, table-local
CandidateCellsUnmoved(region, line_bboxes) ==
    LET Keep(i) == full_encapsulation(Rect(region), line_bboxes[i])
        cells_in_table == SelectRange(line_bboxes, Keep, 1, Len(line_bboxes))
    IN [k \in Indices(cells_in_table) |-> [bbox |-> cells_in_table[k]]]
CandidateCells(region, line_bboxes) ==
    LET Keep(i) == full_encapsulation(Rect(region), line_bboxes[i])
        cells_in_table == SelectRange(line_bboxes, Keep, 1, Len(line_bboxes))
    IN [k \in Indices(cells_in_table) |->
          [bbox |-> <<cells_in_table[k][1] - region[1], cells_in_table[k][2] - region[2],
                      cells_in_table[k][3] - region[1], cells_in_table[k][4] - region[2]>>]]

\* f"{page_number}_{position}_a_{cell.row_id}_{cell.col_id}.png": the fields
\* the name is formatted from, in the order in which it shows them
Filename(page, position, row_id, col_id) == <<page, position, "a", row_id, col_id, "png">>

\* the region appended for one returned cell of the table at (table_x1, table_y1)
CellRegionTransposed(cell, page, position, table_x1, table_y1) ==
    <<cell.bbox[1] + table_y1, cell.bbox[2] + table_x1,
      cell.bbox[3] + table_y1, cell.bbox[4] + table_x1,
      "a", Filename(page, position, cell.row_id, cell.col_id), cell.row_id, cell.col_id>>
CellRegionLocal(cell, page, position, table_x1, table_y1) ==
    <<cell.bbox[1], cell.bbox[2], cell.bbox[3], cell.bbox[4],
      "a", Filename(page, position, cell.row_id, cell.col_id), cell.row_id, cell.col_id>>
CellRegion(cell, page, position, table_x1, table_y1) ==
    <<cell.bbox[1] + table_x1, cell.bbox[2] + table_y1,
      cell.bbox[3] + table_x1, cell.bbox[4] + table_y1,
      "a", Filename(page, position, cell.row_id, cell.col_id), cell.row_id, cell.col_id>>

\* the inner loop over table_result.cells
CellRegions(table_result, page, table_position) ==
    [c \in Indices(table_result.cells) |->
        CellRegion(table_result.cells[c], page, table_position[1],
                   table_position[2][1], table_position[2][2])]

RECURSIVE EmitCells(_, _, _, _)
\* the loop over zip(table_results, table_positions), from pair k on
EmitCells(table_results, positions, page, k) ==
    IF k > Len(table_results) \/ k > Len(positions) THEN <<>>
    ELSE CellRegions(table_results[k], page, positions[k])
            \o EmitCells(table_results, positions, page, k + 1)

\* what the except branch appends
NoFallback(regions) == <<>>
Fallback(regions) == TableRegions(regions)

\* the loop of lines 298-309
CollectTables ==
    /\ pc = "tables"
    /\ LET tables == TableRegions(final_adjusted_boxes)
       IN /\ table_cells_list' =
                [k \in Indices(tables) |-> CandidateCells(tables[k], sparse_line_bboxes)]
          /\ table_positions' = [k \in Indices(tables) |-> <<tables[k][7], Rect(tables[k])>>]
    /\ final_regions' = OtherRegions(final_adjusted_boxes)
    /\ pc' = "recognize"
    /\ UNCHANGED <<chunkVars, batchVars, exportVars, fuseVars, orderVars, expandVars, sparse_line_bboxes, page_number,
                   table_outcome>>

\* "if table_images" is false
SkipRecognition ==
    /\ pc = "recognize"
    /\ table_positions = <<>>
    /\ table_outcome' = [kind |-> "skipped"]
    /\ pc' = "emitted"
    /\ UNCHANGED <<chunkVars, batchVars, exportVars, fuseVars, orderVars, expandVars, sparse_line_bboxes, page_number,
                   table_cells_list, table_positions, final_regions>>

\* batch_table_recognition returns table_results, and the cells are appended
RecognitionReturns(table_results) ==
    /\ pc = "recognize"
    /\ table_positions /= <<>>
    /\ table_outcome' = [kind |-> "returned", table_results |-> table_results]
    /\ final_regions' =
          final_regions \o EmitCells(table_results, table_positions, page_number, 1)
    /\ pc' = "emitted"
    /\ UNCHANGED <<chunkVars, batchVars, exportVars, fuseVars, orderVars, expandVars, sparse_line_bboxes, page_number,
                   table_cells_list, table_positions>>

\* batch_table_recognition raises, and the except branch runs
RecognitionRaises ==
    /\ pc = "recognize"
    /\ table_positions /= <<>>
    /\ table_outcome' = [kind |-> "raised"]
    /\ final_regions' = final_regions \o Fallback(final_adjusted_boxes)
    /\ pc' = "emitted"
    /\ UNCHANGED <<chunkVars, batchVars, exportVars, fuseVars, orderVars, expandVars, sparse_line_bboxes, page_number,
                   table_cells_list, table_positions>>

(***************************************************************************)
(* Exporter: get_layout, lines 330-383.                                    *)
(***************************************************************************)
\* int(v * (raw / normal)) for a pixel coordinate v >= 0
Rescale(v, raw, normal) == (v * raw) \div normal

\* scaled_x1, scaled_y1, scaled_x2, scaled_y2 of a final region
ScaledRect(region, raw, normal) ==
    <<Rescale(region[1], raw[1], normal[3]), Rescale(region[2], raw[2], normal[4]),
      Rescale(region[3], raw[1], normal[3]), Rescale(region[4], raw[2], normal[4])>>

\* "if scaled_x2 <= scaled_x1 or scaled_y2 <= scaled_y1"
InvalidWhenInverted(scaled) == scaled[3] < scaled[1] \/ scaled[4] < scaled[2]
InvalidGeometry(scaled) == scaled[3] <= scaled[1] \/ scaled[4] <= scaled[2]

get_shortened_label(label) ==
    CASE label = "Caption" -> "c" [] label = "Footnote" -> "fo" [] label = "Formula" -> "fr"
      [] label = "List-item" -> "l" [] label = "Page-footer" -> "pf"
      [] label = "Page-header" -> "ph" [] label = "Picture" -> "p" [] label = "Figure" -> "f"
      [] label = "Section-header" -> "s" [] label = "Table" -> "a" [] label = "Text" -> "e"
      [] label = "Title" -> "i" [] OTHER -> "u"

\* number of decimal digits of n: len(str(n))
NumDigits(n) == IF n < 10 THEN 1 ELSE IF n < 100 THEN 2 ELSE 3

\* the name of the file a region is saved under: a cell's own filename, or
\* the fields of f"{page_number}_{padded_index}_{shortened_label}.png" with
\* the width the index is padded to
FileName(region, page, num_images) ==
    IF region[5] = "a" THEN region[6]
    ELSE <<page, region[7], NumDigits(num_images), get_shortened_label(region[5]), "png">>

\* one iteration of the loop of lines 341-383 that ends at the "continue"
\* of line 350
SkipRegion ==
    /\ pc = "export"
    /\ export_index <= Len(final_regions)
    /\ InvalidGeometry(ScaledRect(final_regions[export_index], raw_shape, image_bbox))
    /\ skipped' = Append(skipped, export_index)
    /\ export_index' = export_index + 1
    /\ UNCHANGED <<chunkVars, batchVars, fuseVars, orderVars, expandVars, tableVars, raw_shape,
                   written, pc>>

\* one iteration that crops, resizes and saves the region
WriteRegion ==
    /\ pc = "export"
    /\ export_index <= Len(final_regions)
    /\ LET scaled == ScaledRect(final_regions[export_index], raw_shape, image_bbox)
       IN /\ ~InvalidGeometry(scaled)
          /\ written' = Append(written,
                [index |-> export_index, crop |-> scaled,
                 file_name |-> FileName(final_regions[export_index], page_number,
                                        Len(final_regions))])
    /\ export_index' = export_index + 1
    /\ UNCHANGED <<chunkVars, batchVars, fuseVars, orderVars, expandVars, tableVars, raw_shape,
                   skipped, pc>>

\* the loop is left after the last region
ExportDone ==
    /\ pc = "export"
    /\ export_index > Len(final_regions)
    /\ pc' = "exported"
    /\ UNCHANGED <<chunkVars, batchVars, fuseVars, orderVars, expandVars, tableVars, exportVars>>

(***************************************************************************)
(* The batch: get_layout, lines 164-385, over the pages of a chunk.        *)
(***************************************************************************)
pageVars == <<fuseVars, orderVars, expandVars, tableVars, exportVars>>

\* lines 225-255 for one page: the regions handed on with their ids
FusePageRegions(prediction) ==
    DegeneracyGuard(assign_boxIDs(
        consolidate_regions(filter_text_labels(prediction.sparse_layout), prediction.layout)))

\* lines 262-275 for one page
ReconcilePage(regions, order_prediction_) ==
    LET appended == StampAll(coord_to_box_map(regions), order_prediction_, 1)
    IN SortByPosition(appended, Len(appended))

RECURSIVE VerticalPass(_, _)
\* the first while loop, run until a sweep changes nothing
VerticalPass(bs, y_max) ==
    LET r == VerticalSweep(bs, y_max)
    IN IF VerticalLoop(r.changes_made) = "vertical" THEN VerticalPass(r.boxes, y_max)
       ELSE r.boxes

RECURSIVE HorizontalPass(_, _)
\* the second while loop
HorizontalPass(bs, x_max) ==
    LET r == HorizontalSweep(bs, x_max)
    IN IF HorizontalLoop(r.changes_made) = "horizontal" THEN HorizontalPass(r.boxes, x_max)
       ELSE r.boxes

\* a whole call of adjust_bounding_boxes_final
adjust_bounding_boxes_final(bounding_boxes, page_bbox) ==
    LET vertical == VerticalPass(bounding_boxes, page_bbox[4])
        horizontal == HorizontalPass(bounding_boxes, page_bbox[3])
    IN [k \in Indices(bounding_boxes) |-> MergeBox(vertical[k], horizontal[k])]

\* the expanded regions of the page the second loop is at
ExpandedPage(k) ==
    adjust_bounding_boxes_final(
        ReconcilePage(original_layout_regions_scaled_list[k], order_predictions[k]),
        <<0, 0, PageW, PageH>>)

\* (position, rectangle) of the Table regions, as lines 298-307 collect them
TablePositions(regions) ==
    LET tables == TableRegions(regions)
    IN [k \in Indices(tables) |-> <<tables[k][7], Rect(tables[k])>>]

\* the page the second loop is at, and the pc after it
NextPage == Len(original_layout_regions_scaled_with_position_list) + 1
AfterPage(k) == IF k = page_folders THEN "batch_returned" ELSE "batch_finish"

\* lines 214-217: the detectors return their predictions for all pages
DetectionReturns(predictions) ==
    /\ pc = "batch_detect"
    /\ Len(predictions) = page_folders
    /\ batch_predictions' = predictions
    /\ pc' = "batch_fuse"
    /\ UNCHANGED <<chunkVars, pageVars, page_folders, original_layout_regions_scaled_list,
                   order_predictions, original_layout_regions_scaled_with_position_list,
                   batch_raised>>

\* lines 214-217: a detector raises; nothing in get_layout catches it
DetectionRaises ==
    /\ pc = "batch_detect"
    /\ batch_raised' = batch_raised \cup {"layout"}
    /\ pc' = "batch_aborted"
    /\ UNCHANGED <<chunkVars, pageVars, page_folders, batch_predictions,
                   original_layout_regions_scaled_list, order_predictions,
                   original_layout_regions_scaled_with_position_list>>

\* one iteration of the loop of lines 225-255
FusePage ==
    /\ pc = "batch_fuse"
    /\ LET k == Len(original_layout_regions_scaled_list) + 1
       IN /\ original_layout_regions_scaled_list' =
                Append(original_layout_regions_scaled_list,
                       FusePageRegions(batch_predictions[k]))
          /\ pc' = IF k = page_folders THEN "batch_order" ELSE "batch_fuse"
    /\ UNCHANGED <<chunkVars, pageVars, page_folders, batch_predictions, order_predictions,
                   original_layout_regions_scaled_with_position_list, batch_raised>>

\* line 257: batch_ordering returns a prediction for every page
OrderingReturns(predictions) ==
    /\ pc = "batch_order"
    /\ order_predictions' = predictions
    /\ original_layout_regions_scaled_with_position_list' = <<>>
    /\ pc' = "batch_finish"
    /\ UNCHANGED <<chunkVars, pageVars, page_folders, batch_predictions,
                   original_layout_regions_scaled_list, batch_raised>>

\* line 257: batch_ordering raises; nothing in get_layout catches it
OrderingRaises ==
    /\ pc = "batch_order"
    /\ batch_raised' = batch_raised \cup {"order"}
    /\ pc' = "batch_aborted"
    /\ UNCHANGED <<chunkVars, pageVars, page_folders, batch_predictions,
                   original_layout_regions_scaled_list, order_predictions,
                   original_layout_regions_scaled_with_position_list>>

\* one iteration of the loop of lines 261-383 on a page without Table region
FinishPage ==
    /\ pc = "batch_finish"
    /\ LET expanded == ExpandedPage(NextPage)
       IN /\ TableRegions(expanded) = <<>>
          /\ original_layout_regions_scaled_with_position_list' =
                Append(original_layout_regions_scaled_with_position_list,
                       OtherRegions(expanded))
    /\ pc' = AfterPage(NextPage)
    /\ UNCHANGED <<chunkVars, pageVars, page_folders, batch_predictions,
                   original_layout_regions_scaled_list, order_predictions, batch_raised>>

\* the iteration on a page with Table regions, batch_table_recognition returning
FinishPageRecognized(table_results) ==
    /\ pc = "batch_finish"
    /\ LET expanded == ExpandedPage(NextPage)
       IN /\ TableRegions(expanded) /= <<>>
          /\ original_layout_regions_scaled_with_position_list' =
                Append(original_layout_regions_scaled_with_position_list,
                       OtherRegions(expanded)
                          \o EmitCells(table_results, TablePositions(expanded),
                                       NextPage - 1, 1))
    /\ pc' = AfterPage(NextPage)
    /\ UNCHANGED <<chunkVars, pageVars, page_folders, batch_predictions,
                   original_layout_regions_scaled_list, order_predictions, batch_raised>>

\* the iteration on a page with Table regions, batch_table_recognition raising
FinishPageFallback ==
    /\ pc = "batch_finish"
    /\ LET expanded == ExpandedPage(NextPage)
       IN /\ TableRegions(expanded) /= <<>>
          /\ original_layout_regions_scaled_with_position_list' =
                Append(original_layout_regions_scaled_with_position_list,
                       OtherRegions(expanded) \o Fallback(expanded))
    /\ batch_raised' = batch_raised \cup {"table"}
    /\ pc' = AfterPage(NextPage)
    /\ UNCHANGED <<chunkVars, pageVars, page_folders, batch_predictions,
                   original_layout_regions_scaled_list, order_predictions>>

(***************************************************************************)
(* Expander specification: every list of BoxCounts regions on the page.    *)
(***************************************************************************)
ExpandLabels == {"Text", "Picture"}

\* reconciled regions: ids and positions as stamped for an in-order prediction
ExpandInputs ==
    UNION {{[k \in 1..n |-> <<rs[k][1], rs[k][2], rs[k][3], rs[k][4], ls[k], k - 1, k - 1>>] :
              rs \in [1..n -> RectsIn(PageW, PageH)], ls \in [1..n -> ExpandLabels]} :
           n \in BoxCounts}

\* a Figure region anywhere on the page beside a Text region in a corner
FigureInputs ==
    {<<<<r[1], r[2], r[3], r[4], "Figure", 0, 0>>, <<t[1], t[2], t[3], t[4], "Text", 1, 1>>>> :
        r \in RectsIn(PageW, PageH),
        t \in {<<0, 0, 1, 1>>, <<PageW - 1, PageH - 1, PageW, PageH>>}}

\* Scenario 1: two Text regions side by side on a page 40 wide
Scenario1Page == <<0, 0, 40, 10>>
Scenario1Regions == << <<0, 0, 10, 10, "Text", 0, 0>>, <<20, 0, 30, 10, "Text", 1, 1>> >>

InitExpand ==
    /\ ChunkIdle
    /\ ExportIdle
    /\ BatchIdle
    /\ pc = "vertical"
    /\ FuseIdle
    /\ order_prediction = None
    /\ \/ /\ ordered_original_layout_regions_scaled \in ExpandInputs \cup FigureInputs
          /\ image_bbox = <<0, 0, PageW, PageH>>
       \/ /\ ordered_original_layout_regions_scaled = Scenario1Regions
          /\ image_bbox = Scenario1Page
    /\ adjusted_boxes_vertical = ordered_original_layout_regions_scaled
    /\ adjusted_boxes_horizontal = ordered_original_layout_regions_scaled
    /\ final_adjusted_boxes = None
    /\ v_sweeps = 0
    /\ h_sweeps = 0
    /\ first_result = None
    /\ TableIdle

NextExpand == VSweep \/ HSweep \/ Merge \/ Reapply

SpecExpand == InitExpand /\ [][NextExpand]_vars

(***************************************************************************)
(* Expander with freely interleaved passes.                                *)
(***************************************************************************)
\* two Text regions, one anywhere on the page and one in a corner
TextPairs ==
    {<<<<r[1], r[2], r[3], r[4], "Text", 0, 0>>, <<t[1], t[2], t[3], t[4], "Text", 1, 1>>>> :
        r \in RectsIn(PageW, PageH),
        t \in {<<0, 0, 1, 1>>, <<PageW - 1, PageH - 1, PageW, PageH>>}}

InitInterleaved ==
    /\ ChunkIdle
    /\ ExportIdle
    /\ BatchIdle
    /\ pc = "concurrent"
    /\ FuseIdle
    /\ order_prediction = None
    /\ ordered_original_layout_regions_scaled \in TextPairs \cup FigureInputs
    /\ image_bbox = <<0, 0, PageW, PageH>>
    /\ adjusted_boxes_vertical = ordered_original_layout_regions_scaled
    /\ adjusted_boxes_horizontal = ordered_original_layout_regions_scaled
    /\ final_adjusted_boxes = None
    /\ v_sweeps = 0
    /\ h_sweeps = 0
    /\ first_result = None
    /\ TableIdle

NextInterleaved == ConcurrentVSweep \/ ConcurrentHSweep \/ Merge

SpecInterleaved == InitInterleaved /\ [][NextInterleaved]_vars

(***************************************************************************)
(* Fusion specification: label filter, consolidator, IDs and guard.        *)
(***************************************************************************)
ListCounts == {0, 1, 2}
GuardSizes == {254, 255, 256, 300}
SparseLabels == {"Title", "Caption", "Formula", "Text"}

Regions(rects, labels) == {<<r[1], r[2], r[3], r[4], l>> : r \in rects, l \in labels}

ListsOver(S, counts) == UNION {[1..n -> S] : n \in counts}

\* rectangles spanning the page width
ColumnRects == {r \in RectsIn(PageW, PageH) : r[1] = 0 /\ r[3] = PageW}

\* rectangles spanning the page width or the page height
StripRects ==
    ColumnRects \cup {r \in RectsIn(PageW, PageH) : r[2] = 0 /\ r[4] = PageH}

\* n unit cells filling the rectangle r row by row, again and again
CellsIn(r, n) ==
    [k \in 1..n |->
        LET cx == r[1] + ((k - 1) % (r[3] - r[1]))
            cy == r[2] + (((k - 1) \div (r[3] - r[1])) % (r[4] - r[2]))
        IN <<cx, cy, cx + 1, cy + 1, "Text">>]

Scenario2Sparse == << <<0, 0, 100, 20, "Title">> >>
Scenario2Layout == << <<0, 0, 100, 15, "Text">> >>

\* <<sparse regions, layout regions>> of a page
FuseInputs ==
    \* one sparse and one layout region, anywhere on the page
    {<< <<s>>, <<l>> >> : s \in Regions(RectsIn(PageW, PageH), SparseLabels),
                          l \in Regions(RectsIn(PageW, PageH), {"Text"})}
    \cup
    \* up to two of each, stacked in one column
    (ListsOver(Regions(ColumnRects, {"Title", "Caption"}), ListCounts)
       \X ListsOver(Regions(ColumnRects, {"Text"}), ListCounts))
    \cup
    {<<Scenario2Sparse, Scenario2Layout>>}
    \cup
    \* over-segmented pages
    {<<s, CellsIn(r, n)>> : s \in {<<>>, << <<0, 0, 1, 1, "Title">> >>},
                            r \in StripRects, n \in GuardSizes}

InitFuse ==
    /\ ChunkIdle
    /\ ExportIdle
    /\ BatchIdle
    /\ pc = "filter"
    /\ \E in \in FuseInputs :
          /\ sparse_line_regions = in[1]
          /\ layout_regions = in[2]
    /\ filtered_adjusted_sparse_line_regions = None
    /\ consolidated_regions = None
    /\ consolidated_regions_with_ids = None
    /\ OrderIdle
    /\ image_bbox = <<0, 0, PageW, PageH>>
    /\ ExpandIdle
    /\ TableIdle

NextFuse == FilterText \/ Consolidate \/ AssignIDs \/ Guard

SpecFuse == InitFuse /\ [][NextFuse]_vars

(***************************************************************************)
(* Order specification: reading-order prediction and reconciliation.       *)
(***************************************************************************)
OrderCounts == {1, 2, 3}
OrderRects == {<<0, 0, 1, 1>>, <<0, 1, 1, 2>>, <<1, 0, 2, 2>>}

\* ID-assigned region lists; two regions of a page may have the same rectangle
OrderInputs ==
    {assign_boxIDs(bs) : bs \in ListsOver(Regions(OrderRects, {"Text", "Table"}), OrderCounts)}

InitOrder ==
    /\ ChunkIdle
    /\ ExportIdle
    /\ BatchIdle
    /\ pc = "order"
    /\ sparse_line_regions = None
    /\ layout_regions = None
    /\ filtered_adjusted_sparse_line_regions = None
    /\ consolidated_regions = None
    /\ consolidated_regions_with_ids \in OrderInputs
    /\ OrderIdle
    /\ image_bbox = <<0, 0, PageW, PageH>>
    /\ ExpandIdle
    /\ TableIdle

NextOrder == BatchOrdering \/ Reconcile

SpecOrder == InitOrder /\ [][NextOrder]_vars

\* the order specification with positions that may repeat
NextOrderWithTies == BatchOrderingWithTies \/ Reconcile

SpecOrderWithTies == InitOrder /\ [][NextOrderWithTies]_vars

(***************************************************************************)
(* Table specification: decomposition of the expanded regions of a page.   *)
(***************************************************************************)
TableCounts == {1, 2, 3}
TableRects == {<<0, 0, 2, 2>>, <<1, 0, 3, 2>>, <<0, 1, 2, 2>>}
LineBoxLists == {<<>>, << <<0, 0, 1, 1>> >>, << <<1, 1, 2, 2>>, <<0, 1, 2, 3>>, <<2, 0, 3, 1>> >>}

\* expanded regions in ascending order position; positions may have gaps
\* where the reconciler missed, and ids follow the regions' first order
TableInputs ==
    UNION {{[k \in 1..n |-> <<rg[k][1], rg[k][2], rg[k][3], rg[k][4], rg[k][5],
                               n - k, IF k < gap THEN k - 1 ELSE k>>] :
              rg \in [1..n -> Regions(TableRects, {"Table", "Text"})], gap \in 1..(n + 1)} :
           n \in TableCounts}

Cell(rect, row_id, col_id) == [bbox |-> rect, row_id |-> row_id, col_id |-> col_id]

\* what the predictor may return for one table
CellLists ==
    {<<>>,
     <<Cell(<<0, 0, 1, 1>>, 0, 0)>>,
     <<Cell(<<0, 0, 1, 1>>, 0, 0), Cell(<<1, 0, 2, 1>>, 0, 1), Cell(<<0, 1, 2, 2>>, 1, 0)>>,
     <<Cell(<<1, 0, 2, 1>>, 0, 1), Cell(<<1, 0, 2, 1>>, 0, 1)>>}

\* the cell lists that are rectangles of a cropped image w wide and h high
CellListsIn(w, h) ==
    {cl \in CellLists :
        \A c \in Indices(cl) :
            /\ 0 <= cl[c].bbox[1] /\ cl[c].bbox[3] <= w
            /\ 0 <= cl[c].bbox[2] /\ cl[c].bbox[4] <= h}

RECURSIVE ResultsFor(_, _)
\* the results for the first m cropped tables: the cells of a result are
\* rectangles of the image it was recognised in
ResultsFor(positions, m) ==
    IF m = 0 THEN {<<>>}
    ELSE {Append(tr, [cells |-> cl]) :
             tr \in ResultsFor(positions, m - 1),
             cl \in CellListsIn(positions[m][2][3] - positions[m][2][1],
                                positions[m][2][4] - positions[m][2][2])}

\* table_results for the cropped tables: at most one result per image
TableResults(positions) == UNION {ResultsFor(positions, m) : m \in 0..Len(positions)}

InitTable ==
    /\ ChunkIdle
    /\ ExportIdle
    /\ BatchIdle
    /\ pc = "tables"
    /\ FuseIdle
    /\ OrderIdle
    /\ image_bbox = <<0, 0, PageW, PageH>>
    /\ adjusted_boxes_vertical = None
    /\ adjusted_boxes_horizontal = None
    /\ final_adjusted_boxes \in TableInputs
    /\ v_sweeps = 0
    /\ h_sweeps = 0
    /\ first_result = None
    /\ sparse_line_bboxes \in LineBoxLists
    /\ page_number \in {0, 1}
    /\ table_cells_list = None
    /\ table_positions = None
    /\ table_outcome = [kind |-> "pending"]
    /\ final_regions = None

NextTable ==
    \/ CollectTables
    \/ SkipRecognition
    \/ \E table_results \in TableResults(table_positions) :
          RecognitionReturns(table_results)
    \/ RecognitionRaises

SpecTable == InitTable /\ [][NextTable]_vars

(***************************************************************************)
(* Batch specification: get_layout over a chunk of one or two pages.       *)
(***************************************************************************)
BatchSizes == {1, 2}

\* what the detectors return for a page: layout regions of the denoised
\* image, layout regions and line boxes of the unmodified image
PagePredictions ==
    {[layout |-> << <<1, 0, 3, 2, "Table">>, <<0, 2, 1, 3, "Text">> >>,
      sparse_layout |-> <<>>,
      sparse_line |-> << <<1, 0, 2, 1>> >>],
     [layout |-> << <<0, 0, 1, 1, "Text">> >>,
      sparse_layout |-> << <<2, 2, 3, 3, "Title">>, <<0, 0, 1, 1, "Text">> >>,
      sparse_line |-> <<>>],
     [layout |-> << <<0, 1, 2, 2, "Table">> >>,
      sparse_layout |-> <<>>,
      sparse_line |-> <<>>]}

RECURSIVE OrderPredictions(_, _)
\* what batch_ordering returns for the first n pages
OrderPredictions(regions_list, n) ==
    IF n = 0 THEN {<<>>}
    ELSE {Append(ps, p) :
             ps \in OrderPredictions(regions_list, n - 1),
             p \in Predictions([k \in Indices(regions_list[n]) |->
                                   Rect(regions_list[n][k])])}

InitBatch ==
    /\ ChunkIdle
    /\ ExportIdle
    /\ pc = "batch_detect"
    /\ FuseIdle
    /\ OrderIdle
    /\ image_bbox = <<0, 0, PageW, PageH>>
    /\ ExpandIdle
    /\ TableIdle
    /\ page_folders \in BatchSizes
    /\ batch_predictions = None
    /\ original_layout_regions_scaled_list = None
    /\ order_predictions = None
    /\ original_layout_regions_scaled_with_position_list = None
    /\ batch_raised = {}

NextBatch ==
    \/ \E predictions \in UNION {[1..n -> PagePredictions] : n \in BatchSizes} :
          DetectionReturns(predictions)
    \/ DetectionRaises
    \/ FusePage
    \/ /\ pc = "batch_order"
       /\ \E predictions \in OrderPredictions(original_layout_regions_scaled_list,
                                               page_folders) :
             OrderingReturns(predictions)
    \/ OrderingRaises
    \/ FinishPage
    \/ /\ pc = "batch_finish"
       /\ \E table_results \in TableResults(TablePositions(ExpandedPage(NextPage))) :
             FinishPageRecognized(table_results)
    \/ FinishPageFallback

SpecBatch == InitBatch /\ [][NextBatch]_vars

(***************************************************************************)
(* Export specification: the final regions of a page are written out.      *)
(***************************************************************************)
ExportCounts == {1, 2, 3}

\* final regions of a page: regions with id and position, and table cells;
\* among them rectangles without width or height and inverted ones
ExportRegions ==
    {<<0, 0, 2, 2, "Text", 0, 0>>, <<1, 0, 1, 2, "Title", 1, 1>>,
     <<2, 1, 1, 3, "Table", 2, 2>>, <<1, 1, 3, 2, "Picture", 3, 3>>,
     <<0, 1, 1, 2, "a", Filename(0, 4, 0, 0), 0, 0>>,
     <<1, 2, 2, 2, "a", Filename(0, 4, 0, 1), 0, 1>>}

\* raw_image and normal_image are both read from raw.png
InitExport ==
    /\ ChunkIdle
    /\ BatchIdle
    /\ pc = "export"
    /\ FuseIdle
    /\ OrderIdle
    /\ image_bbox = <<0, 0, PageW, PageH>>
    /\ ExpandIdle
    /\ sparse_line_bboxes = None
    /\ page_number = 0
    /\ table_cells_list = None
    /\ table_positions = None
    /\ table_outcome = [kind |-> "pending"]
    /\ final_regions \in ListsOver(ExportRegions, ExportCounts)
    /\ raw_shape = <<PageW, PageH>>
    /\ export_index = 1
    /\ written = <<>>
    /\ skipped = <<>>

NextExport == SkipRegion \/ WriteRegion \/ ExportDone

SpecExport == InitExport /\ [][NextExport]_vars

(***************************************************************************)
(* Properties of the expander.                                             *)
(***************************************************************************)
\* the argument of the running call of adjust_bounding_boxes_final
CallInput ==
    IF first_result = None THEN ordered_original_layout_regions_scaled ELSE first_result

Growing(bs) == {i \in Indices(bs) : bs[i][5] \notin FrozenLabels}

NoTwoOverlap(bs) ==
    \A i, j \in Growing(bs) : i /= j => ~rectOverlap(Rect(bs[i]), Rect(bs[j]))

InsidePage(bs) ==
    \A i \in Indices(bs) :
        /\ 0 <= bs[i][1] /\ 0 <= bs[i][2]
        /\ bs[i][3] <= image_bbox[3] /\ bs[i][4] <= image_bbox[4]

\* C1: in the list returned by adjust_bounding_boxes_final no two distinct
\* regions labelled outside {Picture, Figure} overlap by rectOverlap.  Stated
\* for inputs in which no two such regions overlap to begin with (for the
\* others the returned list overlaps whatever the growth does).
C1_NoOverlapAfterExpansion ==
    (pc = "expanded" /\ first_result = None
       /\ NoTwoOverlap(ordered_original_layout_regions_scaled))
    => NoTwoOverlap(final_adjusted_boxes)

\* C2: with integer rectangles inside the page, every rectangle of both
\* growth copies after every sweep, and every returned rectangle, satisfies
\* 0 <= x1, 0 <= y1, x2 <= W and y2 <= H.
C2_BoundaryInvariant ==
    /\ InsidePage(adjusted_boxes_vertical)
    /\ InsidePage(adjusted_boxes_horizontal)
    /\ pc = "expanded" => InsidePage(final_adjusted_boxes)

\* a returned region that grew on all four sides up to the page boundary
C2_Witness ==
    /\ pc = "expanded"
    /\ \E i \in Indices(final_adjusted_boxes) :
          /\ Rect(final_adjusted_boxes[i]) = <<0, 0, image_bbox[3], image_bbox[4]>>
          /\ CallInput[i][1] > 0 /\ CallInput[i][2] > 0
          /\ CallInput[i][3] < image_bbox[3] /\ CallInput[i][4] < image_bbox[4]

\* C3: adjust_bounding_boxes_final applied to its own result returns that
\* result: the second run changes no rectangle.
C3_Idempotent ==
    (pc = "expanded" /\ first_result /= None) => final_adjusted_boxes = first_result

\* the second run has returned, and the first run had grown both regions of its
\* input, neither of them to the whole page
C3_Witness ==
    /\ pc = "expanded"
    /\ first_result /= None
    /\ Len(first_result) = 2
    /\ \A i \in Indices(first_result) :
          /\ first_result[i] /= ordered_original_layout_regions_scaled[i]
          /\ Rect(first_result[i]) /= <<0, 0, image_bbox[3], image_bbox[4]>>
    /\ v_sweeps = 1 /\ h_sweeps = 1

RECURSIVE MaxOver(_, _, _)
MaxOver(Dist(_), bs, i) ==
    IF i > Len(bs) THEN 0
    ELSE Max(IF bs[i][5] \in FrozenLabels THEN 0 ELSE Dist(bs[i]), MaxOver(Dist, bs, i + 1))

\* largest distance an edge of a growing region is away from the page boundary
VerticalRoom(box) == Max(box[2], image_bbox[4] - box[4])
HorizontalRoom(box) == Max(box[1], image_bbox[3] - box[3])

\* C4: both growth loops exit, after a full sweep that changes no
\* rectangle, and neither performs more sweeps than the largest distance an
\* edge can move to the page boundary plus one.
C4_ExpansionTerminates ==
    /\ v_sweeps <= MaxOver(VerticalRoom, CallInput, 1) + 1
    /\ h_sweeps <= MaxOver(HorizontalRoom, CallInput, 1) + 1
    /\ pc \in {"horizontal", "merge", "expanded"} =>
          /\ v_sweeps >= 1
          /\ ~VerticalSweep(adjusted_boxes_vertical, image_bbox[4]).changes_made
    /\ pc \in {"merge", "expanded"} =>
          /\ h_sweeps >= 1
          /\ ~HorizontalSweep(adjusted_boxes_horizontal, image_bbox[3]).changes_made

\* both loops ran as many sweeps as the bound allows, and more than one
C4_Witness ==
    /\ pc = "expanded"
    /\ v_sweeps = MaxOver(VerticalRoom, CallInput, 1) + 1
    /\ h_sweeps = MaxOver(HorizontalRoom, CallInput, 1) + 1
    /\ v_sweeps >= 3 /\ h_sweeps >= 3

(***************************************************************************)
(* Properties of the consolidator and of the guard.                        *)
(***************************************************************************)
Consolidated == pc \in {"assign", "guard", "order"}

\* the part of consolidate_regions' result that comes from the layout regions
SurvivingLayout ==
    SubSeq(consolidated_regions, Len(filtered_adjusted_sparse_line_regions) + 1,
           Len(consolidated_regions))

Occurrences(s, x) == Cardinality({k \in Indices(s) : s[k] = x})

Height(box) == Abs(box[4] - box[2])

\* rules (a) and (b) of the claim, for sparse region sp and layout region ly
RuleA(sp, ly) ==
    /\ sp[5] \in {"Title", "Section-header", "Page-header", "List-item"}
    /\ rectOverlap(Rect(sp), Rect(ly))
    /\ 2 * Height(sp) > Height(ly)
RuleB(sp, ly) ==
    /\ sp[5] \in {"Table", "Caption", "Footnote", "Page-footer"}
    /\ sp[1] <= ly[1] /\ ly[1] < ly[3] /\ ly[3] <= sp[3]
    /\ sp[2] <= ly[2] /\ ly[2] < ly[4] /\ ly[4] <= sp[4]

Superseded(ly) ==
    \E i \in Indices(filtered_adjusted_sparse_line_regions) :
        \/ RuleA(filtered_adjusted_sparse_line_regions[i], ly)
        \/ RuleB(filtered_adjusted_sparse_line_regions[i], ly)

C19_SparseKept ==
    Consolidated =>
      LET sparse == filtered_adjusted_sparse_line_regions
          deleted == {j \in Indices(layout_regions) : Superseded(layout_regions[j])}
      IN /\ Len(consolidated_regions) >= Len(sparse)
         /\ SubSeq(consolidated_regions, 1, Len(sparse)) = sparse
         /\ SurvivingLayout = SelectSeq(layout_regions, LAMBDA ly : ~Superseded(ly))
         /\ Len(consolidated_regions) =
               Len(sparse) + Len(layout_regions) - Cardinality(deleted)

\* two different sparse regions and two layout regions, the first of which
\* is deleted: the output is the two sparse regions and the second layout
\* region
C19_Witness ==
    /\ Consolidated
    /\ Len(filtered_adjusted_sparse_line_regions) = 2
    /\ filtered_adjusted_sparse_line_regions[1] /= filtered_adjusted_sparse_line_regions[2]
    /\ Len(layout_regions) = 2
    /\ Superseded(layout_regions[1])
    /\ ~Superseded(layout_regions[2])
    /\ layout_regions[2] \notin {filtered_adjusted_sparse_line_regions[1],
                                  filtered_adjusted_sparse_line_regions[2]}
    /\ consolidated_regions =
          filtered_adjusted_sparse_line_regions \o <<layout_regions[2]>>

Least(S) == CHOOSE m \in S : \A x \in S : m <= x
Greatest(S) == CHOOSE m \in S : \A x \in S : m >= x
Coords(bs, c) == {bs[k][c] : k \in Indices(bs)}

\* C8: a consolidated, ID-assigned list of 255 or more regions is replaced by
\* the single region (min x1, min y1, max x2, max y2, Text, id 0); a list of
\* 254 or fewer regions is left as assign_boxIDs made it; so no page has more
\* than 254 regions after the guard.
C8_DegeneracyGuard ==
    pc = "order" =>
      LET before == consolidated_regions
          after == consolidated_regions_with_ids
      IN /\ Len(before) >= 255 =>
               after = << <<Least(Coords(before, 1)), Least(Coords(before, 2)),
                            Greatest(Coords(before, 3)), Greatest(Coords(before, 4)),
                            "Text", 0>> >>
         /\ Len(before) <= 254 =>
               /\ Len(after) = Len(before)
               /\ \A k \in Indices(before) : after[k] = before[k] \o <<k - 1>>
         /\ Len(after) <= 254

\* a page of exactly 255 regions was collapsed to a region smaller than the page
C8_Witness ==
    /\ pc = "order"
    /\ Len(consolidated_regions) = 255
    /\ Len(consolidated_regions_with_ids) = 1
    /\ Rect(consolidated_regions_with_ids[1]) /= <<0, 0, PageW, PageH>>

(***************************************************************************)
(* Properties of the order reconciler.                                     *)
(***************************************************************************)
Reconciled == pc = "expand"

\* regions of the reconciler's output that carry the id of input region k
OutputsOf(k) ==
    {m \in Indices(ordered_original_layout_regions_scaled) :
        ordered_original_layout_regions_scaled[m][6] = consolidated_regions_with_ids[k][6]}

\* the prediction lists exactly the rectangles it was given
PredictionIsPermutation ==
    /\ Len(order_prediction) = Len(consolidated_regions_with_ids)
    /\ \A k \in Indices(order_prediction) :
          order_prediction[k].bbox = Rect(consolidated_regions_with_ids[k])

\* C5: when the prediction is a permutation of the page's input rectangles,
\* every region of the ID-assigned list appears exactly once in the
\* reconciler's output, with exactly one order position.
C5_ExactlyOnePosition ==
    (Reconciled /\ PredictionIsPermutation) =>
        \A k \in Indices(consolidated_regions_with_ids) : Cardinality(OutputsOf(k)) = 1

OutputPositions ==
    {ordered_original_layout_regions_scaled[m][7] :
        m \in Indices(ordered_original_layout_regions_scaled)}

MatchedEntries ==
    {k \in Indices(order_prediction) :
        \E j \in Indices(consolidated_regions_with_ids) :
            order_prediction[k].bbox = Rect(consolidated_regions_with_ids[j])}

\* C6: the order positions of the n regions of the reconciler's output are
\* pairwise distinct; they are the positions the predictor reported for the
\* matched entries, and 0..n-1 when no entry misses.
C6_OrderTotality ==
    Reconciled =>
      LET out == ordered_original_layout_regions_scaled
      IN /\ \A a, b \in Indices(out) : a /= b => out[a][7] /= out[b][7]
         /\ OutputPositions = {order_prediction[k].position : k \in MatchedEntries}
         /\ Len(out) = Cardinality(MatchedEntries)
         /\ MatchedEntries = Indices(order_prediction)
               => OutputPositions = 0..(Len(out) - 1)

\* two of three entries matched, and were stamped in another order than the
\* regions' own
C6_Witness ==
    /\ Reconciled
    /\ Len(consolidated_regions_with_ids) = 3
    /\ Len(ordered_original_layout_regions_scaled) = 2
    /\ ordered_original_layout_regions_scaled[1][6] > ordered_original_layout_regions_scaled[2][6]
    /\ ordered_original_layout_regions_scaled[1][7] = 0
    /\ ordered_original_layout_regions_scaled[2][7] = 2

\* the output entry m was appended for the prediction entry k
StampedFrom(m, k) ==
    LET x == ordered_original_layout_regions_scaled[m]
    IN /\ Rect(x) = order_prediction[k].bbox
       /\ x[7] = order_prediction[k].position
       /\ \E j \in Indices(consolidated_regions_with_ids) :
             consolidated_regions_with_ids[j] = <<x[1], x[2], x[3], x[4], x[5], x[6]>>

\* C17: the reconciler's output has one entry for each prediction entry whose
\* rectangle equals the rectangle of a region of the page, with that
\* rectangle, the label and id of a region that has it, and the predicted
\* position; an entry without exact match adds nothing, and a region whose
\* rectangle no prediction entry has is absent from the output.
C17_ReconcilerOutput ==
    Reconciled =>
      LET out == ordered_original_layout_regions_scaled
      IN /\ Len(out) = Cardinality(MatchedEntries)
         /\ \A k \in MatchedEntries :
               Cardinality({m \in Indices(out) : StampedFrom(m, k)}) = 1
         /\ \A m \in Indices(out) : \E k \in MatchedEntries : StampedFrom(m, k)
         /\ \A j \in Indices(consolidated_regions_with_ids) :
               (\A k \in Indices(order_prediction) :
                   order_prediction[k].bbox /= Rect(consolidated_regions_with_ids[j]))
               => OutputsOf(j) = {}

\* of three regions with different rectangles the entry of a Table missed:
\* the other two are in the output, a Table among them, and the region
\* whose entry missed is not
C17_Witness ==
    /\ Reconciled
    /\ Len(consolidated_regions_with_ids) = 3
    /\ Cardinality({Rect(consolidated_regions_with_ids[j]) : j \in 1..3}) = 3
    /\ Cardinality(MatchedEntries) = 2
    /\ 2 \notin MatchedEntries
    /\ OutputsOf(2) = {}
    /\ consolidated_regions_with_ids[2][5] = "Table"
    /\ Len(ordered_original_layout_regions_scaled) = 2
    /\ ordered_original_layout_regions_scaled[1][5] = "Table"
    /\ ordered_original_layout_regions_scaled[1][6] = 2

\* no two entries of a region list carry the same id
UniqueIds(bs) == \A i, j \in Indices(bs) : i /= j => bs[i][6] /= bs[j][6]

\* C16: the ids of a page's regions are pairwise different at every stage
\* after assign_boxIDs: in the list the Degeneracy Guard leaves, in the
\* reconciler's output and in the expander's copies and result.
C16_UniqueIds ==
    /\ pc \in {"guard", "order", "reconcile", "expand"} =>
          UniqueIds(consolidated_regions_with_ids)
    /\ UniqueIds(ordered_original_layout_regions_scaled)
    /\ UniqueIds(adjusted_boxes_vertical)
    /\ UniqueIds(adjusted_boxes_horizontal)
    /\ UniqueIds(final_adjusted_boxes)

(***************************************************************************)
(* Properties of the table decomposer.                                     *)
(***************************************************************************)
Emitted == pc = "emitted"

\* indices of the Table regions of the expanded list, and the k-th of them
TableIndices == {i \in Indices(final_adjusted_boxes) : final_adjusted_boxes[i][5] = "Table"}
NthTable(k) ==
    final_adjusted_boxes[CHOOSE i \in TableIndices :
                            Cardinality({j \in TableIndices : j <= i}) = k]

RECURSIVE CellsBefore(_, _)
\* number of cells returned for the tables before the k-th
CellsBefore(table_results, k) ==
    IF k <= 1 THEN 0
    ELSE CellsBefore(table_results, k - 1) + Len(table_results[k - 1].cells)

\* C9: when the predictor returns, every cell it returned for a Table
\* region T is emitted as exactly one region: the cell's rectangle moved by
\* T's top-left corner, labelled as a table cell, carrying the cell's row_id
\* and col_id and, in its filename page_position_a_row_col, T's order
\* position; as many cell regions are emitted as cells were returned.
C9_CellsOnSuccess ==
    (Emitted /\ table_outcome.kind = "returned") =>
      LET results == table_outcome.table_results
          others == Len(final_adjusted_boxes) - Cardinality(TableIndices)
          emitted == {m \in Indices(final_regions) : final_regions[m][5] = "a"}
      IN /\ Cardinality(emitted) = CellsBefore(results, Len(results) + 1)
         /\ emitted = (others + 1)..Len(final_regions)
         /\ \A k \in Indices(results) : \A c \in Indices(results[k].cells) :
               LET T == NthTable(k)
                   cell == results[k].cells[c]
               IN final_regions[others + CellsBefore(results, k) + c] =
                     <<cell.bbox[1] + T[1], cell.bbox[2] + T[2],
                       cell.bbox[3] + T[1], cell.bbox[4] + T[2], "a",
                       <<page_number, T[7], "a", cell.row_id, cell.col_id, "png">>,
                       cell.row_id, cell.col_id>>

\* two tables away from the page's corner, in different places, for which
\* three cells and one cell were returned
C9_Witness ==
    /\ Emitted
    /\ table_outcome.kind = "returned"
    /\ Len(table_outcome.table_results) = 2
    /\ Len(table_outcome.table_results[1].cells) = 3
    /\ Len(table_outcome.table_results[2].cells) = 1
    /\ Len(final_adjusted_boxes) = 3
    /\ NthTable(1)[1] /= NthTable(1)[2]
    /\ NthTable(2)[1] /= NthTable(2)[2]
    /\ Rect(NthTable(1)) /= Rect(NthTable(2))
    /\ page_number /= NthTable(1)[7]
    /\ Cardinality({m \in Indices(final_regions) : final_regions[m][5] = "a"}) = 4

\* C10: when table recognition raises, the page's final region list holds
\* every Table region of the expanded list unchanged and no table cell, and
\* the page's other regions as they are emitted otherwise.
C10_FallbackOnFailure ==
    (Emitted /\ table_outcome.kind = "raised") =>
      /\ \A m \in Indices(final_regions) : final_regions[m][5] /= "a"
      /\ Len(final_regions) = Len(final_adjusted_boxes)
      /\ \A i \in Indices(final_adjusted_boxes) :
            Occurrences(final_regions, final_adjusted_boxes[i]) =
               Occurrences(final_adjusted_boxes, final_adjusted_boxes[i])
      /\ SelectSeq(final_regions, LAMBDA r : r[5] /= "Table") =
            SelectSeq(final_adjusted_boxes, LAMBDA r : r[5] /= "Table")

\* recognition raised on a page with two different tables and another region
C10_Witness ==
    /\ Emitted
    /\ table_outcome.kind = "raised"
    /\ Cardinality(TableIndices) = 2
    /\ Len(final_adjusted_boxes) = 3
    /\ Rect(NthTable(1)) /= Rect(NthTable(2))
    /\ Len(final_regions) = 3

\* the final regions emitted for the cells of the k-th table
CellsOf(k) ==
    LET results == table_outcome.table_results
        others == Len(final_adjusted_boxes) - Cardinality(TableIndices)
    IN {final_regions[others + CellsBefore(results, k) + c] :
           c \in Indices(results[k].cells)}

EnclosedLines(T) ==
    SelectSeq(sparse_line_bboxes, LAMBDA b : full_encapsulation(Rect(T), b))

PositionOf(region) == IF region[5] = "a" THEN region[6][2] ELSE region[7]

\* C12: the final region list of a page is in ascending order-position
\* order, a Table's cells (or the Table itself when recognition failed)
\* standing at the Table's order position among the other regions.
C12_OrderedOutput ==
    Emitted =>
      \A m, n \in Indices(final_regions) :
          m < n => PositionOf(final_regions[m]) <= PositionOf(final_regions[n])

(***************************************************************************)
(* Properties of the batch.                                                *)
(***************************************************************************)
\* get_layout has returned, or an exception has left it
BatchOver == pc \in {"batch_returned", "batch_aborted"}

\* C13: an exception raised by a predictor call (layout, reading order or
\* table cells) while one page or table is processed does not keep the other
\* pages of the batch from being processed and included in the result of
\* get_layout: when the call is over, at most the one page is missing.
C13_PageIsolation ==
    (BatchOver /\ batch_raised /= {}) =>
        Len(original_layout_regions_scaled_with_position_list) >= page_folders - 1

\* C15: a region labelled Picture or Figure keeps the rectangle it entered
\* adjust_bounding_boxes_final with, on all four edges: in both copies after
\* every sweep of either pass, and in the merged result.
C15_FrozenRegions ==
    \A i \in Indices(CallInput) :
        CallInput[i][5] \in {"Picture", "Figure"} =>
            /\ Rect(adjusted_boxes_vertical[i]) = Rect(CallInput[i])
            /\ Rect(adjusted_boxes_horizontal[i]) = Rect(CallInput[i])
            /\ final_adjusted_boxes /= None =>
                  Rect(final_adjusted_boxes[i]) = Rect(CallInput[i])

\* a Figure with room to its right and below, returned as it came beside a
\* Text region that grew on both axes
C15_Witness ==
    /\ pc = "expanded"
    /\ first_result = None
    /\ ordered_original_layout_regions_scaled[1] = <<0, 0, 1, 1, "Figure", 0, 0>>
    /\ final_adjusted_boxes[1] = <<0, 0, 1, 1, "Figure", 0, 0>>
    /\ Len(final_adjusted_boxes) = 2
    /\ final_adjusted_boxes[2][5] = "Text"
    /\ final_adjusted_boxes[2][3] - final_adjusted_boxes[2][1] >
          ordered_original_layout_regions_scaled[2][3]
             - ordered_original_layout_regions_scaled[2][1]
    /\ final_adjusted_boxes[2][4] - final_adjusted_boxes[2][2] >
          ordered_original_layout_regions_scaled[2][4]
             - ordered_original_layout_regions_scaled[2][2]
    /\ v_sweeps > 1
    /\ h_sweeps > 1

(***************************************************************************)
(* Scenario 1.                                                             *)
(***************************************************************************)
Min(a, b) == IF a <= b THEN a ELSE b

\* the expander runs, or has run, on the two regions of Scenario 1
InScenario1 == ordered_original_layout_regions_scaled = Scenario1Regions

\* C14: in Scenario 1, at every sweep and in the final output the first
\* region's right edge is at most 15 and the second region's left edge at
\* least 15; the two edges move by one pixel per sweep, and once rectOverlap
\* holds between the two regions neither edge moves again.
C14_Scenario1 ==
    InScenario1 =>
      LET first == adjusted_boxes_horizontal[1]
          second == adjusted_boxes_horizontal[2]
      IN /\ first[3] <= 15 /\ second[1] >= 15
         /\ first_result = None =>
               /\ first[3] = Min(10 + h_sweeps, 15)
               /\ second[1] = Max(20 - h_sweeps, 15)
         /\ rectOverlap(Rect(first), Rect(second)) => first[3] = 15 /\ second[1] = 15
         /\ final_adjusted_boxes /= None =>
               /\ final_adjusted_boxes[1][3] = 15
               /\ final_adjusted_boxes[2][1] = 15

\* the first call has returned: the two regions met at x = 15 after five
\* sweeps and a sixth sweep found nothing to grow
C14_Witness ==
    /\ InScenario1
    /\ pc = "expanded"
    /\ first_result = None
    /\ h_sweeps = 6
    /\ Rect(final_adjusted_boxes[1]) = <<0, 0, 15, 10>>
    /\ Rect(final_adjusted_boxes[2]) = <<15, 0, 35, 10>>

(***************************************************************************)
(* Properties of the exporter.                                             *)
(***************************************************************************)
\* the regions the export loop has been through, written and skipped
Processed == 1..(export_index - 1)
WrittenIndices == {written[k].index : k \in Indices(written)}
SkippedIndices == {skipped[k] : k \in Indices(skipped)}

C21_PassesIndependent ==
    /\ pc = "expanded" =>
          final_adjusted_boxes =
             adjust_bounding_boxes_final(ordered_original_layout_regions_scaled, image_bbox)
    /\ pc = "concurrent_v" =>
          adjusted_boxes_horizontal =
             HorizontalPass(ordered_original_layout_regions_scaled, image_bbox[3])
    /\ pc = "concurrent_h" =>
          adjusted_boxes_vertical =
             VerticalPass(ordered_original_layout_regions_scaled, image_bbox[4])

\* the horizontal pass ran to its end before the first vertical sweep, both
\* regions grew on both axes, and the merge has been done
C21_Witness ==
    /\ pc = "expanded"
    /\ v_sweeps > 2
    /\ h_sweeps > 2
    /\ ordered_original_layout_regions_scaled[1][5] = "Text"
    /\ ordered_original_layout_regions_scaled[2][5] = "Text"
    /\ final_adjusted_boxes[1] /= ordered_original_layout_regions_scaled[1]
    /\ final_adjusted_boxes[2] /= ordered_original_layout_regions_scaled[2]

(***************************************************************************)
(* Further properties of the expander.                                     *)
(***************************************************************************)
\* C22: in the merged result a region labelled neither Picture nor Figure
\* has x1 and x2 of the horizontal pass's fixed point and y1 and y2 of the
\* vertical pass's fixed point at the same index; a Picture or Figure region
\* is its record of the vertical pass, whose rectangle is the input's.
C22_MergeRule ==
    pc = "expanded" =>
      LET vertical == VerticalPass(CallInput, image_bbox[4])
          horizontal == HorizontalPass(CallInput, image_bbox[3])
      IN /\ adjusted_boxes_vertical = vertical
         /\ adjusted_boxes_horizontal = horizontal
         /\ \A i \in Indices(CallInput) :
               IF CallInput[i][5] \in {"Picture", "Figure"}
               THEN /\ final_adjusted_boxes[i] = vertical[i]
                    /\ Rect(final_adjusted_boxes[i]) = Rect(CallInput[i])
               ELSE Rect(final_adjusted_boxes[i]) =
                       <<horizontal[i][1], vertical[i][2], horizontal[i][3], vertical[i][4]>>

\* a Picture beside a Text region of which the vertical pass moved only the
\* rows and the horizontal pass only the columns
C22_Witness ==
    /\ pc = "expanded"
    /\ first_result = None
    /\ Len(final_adjusted_boxes) = 2
    /\ final_adjusted_boxes[1][5] = "Picture"
    /\ final_adjusted_boxes[2][5] = "Text"
    /\ Rect(adjusted_boxes_vertical[2]) /= Rect(ordered_original_layout_regions_scaled[2])
    /\ Rect(adjusted_boxes_horizontal[2]) /= Rect(ordered_original_layout_regions_scaled[2])
    /\ Rect(final_adjusted_boxes[2]) \notin
          {Rect(adjusted_boxes_vertical[2]), Rect(adjusted_boxes_horizontal[2])}

\* the copy as the sweep sees it when it comes to region i: the regions
\* before i as the sweep leaves them, the others as it found them
AtTurnOf(i, before, after) ==
    [j \in Indices(before) |-> IF j < i THEN after[j] ELSE before[j]]

\* region i of the copy overlaps no other region of it
Clear(bs, i) == \A j \in Indices(bs) : j /= i => ~rectOverlap(Rect(bs[i]), Rect(bs[j]))

\* C23: a sweep of the vertical pass leaves x1 and x2 of every region as
\* they are, moves y1 down by one or not at all and y2 up by one or not at
\* all, and moves an edge of a region only if the region overlaps no other
\* region of the copy at that moment; likewise the horizontal pass with the
\* axes exchanged.  Hence every rectangle of the result contains the
\* rectangle of the input.
C23_MonotoneGrowth ==
    [][/\ pc = "vertical" =>
            \A i \in Indices(adjusted_boxes_vertical) :
               LET old == adjusted_boxes_vertical[i]
                   new == adjusted_boxes_vertical'[i]
               IN /\ new[1] = old[1] /\ new[3] = old[3]
                  /\ new[2] \in {old[2], old[2] - 1}
                  /\ new[4] \in {old[4], old[4] + 1}
                  /\ new /= old =>
                        Clear(AtTurnOf(i, adjusted_boxes_vertical, adjusted_boxes_vertical'), i)
       /\ pc = "horizontal" =>
            \A i \in Indices(adjusted_boxes_horizontal) :
               LET old == adjusted_boxes_horizontal[i]
                   new == adjusted_boxes_horizontal'[i]
               IN /\ new[2] = old[2] /\ new[4] = old[4]
                  /\ new[1] \in {old[1], old[1] - 1}
                  /\ new[3] \in {old[3], old[3] + 1}
                  /\ new /= old =>
                        Clear(AtTurnOf(i, adjusted_boxes_horizontal,
                                       adjusted_boxes_horizontal'), i)
       /\ pc = "merge" =>
            \A i \in Indices(CallInput) :
               /\ final_adjusted_boxes'[i][1] <= CallInput[i][1]
               /\ final_adjusted_boxes'[i][2] <= CallInput[i][2]
               /\ final_adjusted_boxes'[i][3] >= CallInput[i][3]
               /\ final_adjusted_boxes'[i][4] >= CallInput[i][4]]_vars

\* after its first sweep the vertical copy holds a region that has grown by
\* one row beside one that had room to grow and that the overlap with the
\* first, just grown, held back
C23_Witness ==
    /\ pc = "vertical"
    /\ v_sweeps = 1
    /\ first_result = None
    /\ Len(adjusted_boxes_vertical) = 2
    /\ adjusted_boxes_vertical[1][2] = ordered_original_layout_regions_scaled[1][2]
    /\ adjusted_boxes_vertical[1][4] = ordered_original_layout_regions_scaled[1][4] + 1
    /\ adjusted_boxes_vertical[2] = ordered_original_layout_regions_scaled[2]
    /\ adjusted_boxes_vertical[2][5] = "Text"
    /\ adjusted_boxes_vertical[2][2] > 0

(***************************************************************************)
(* Further properties of the order reconciler.                             *)
(***************************************************************************)
\* the entries of a list that carry position p, in the list's order
AtPosition(bs, p) == SelectSeq(bs, LAMBDA x : x[7] = p)

\* C24: the reconciler's output is in non-decreasing order position, and
\* the entries of one position stand in the order in which the prediction
\* entries stamped them.
C24_SortedStable ==
    Reconciled =>
      LET out == ordered_original_layout_regions_scaled
          stamped == StampAll(coord_to_box_map(consolidated_regions_with_ids),
                              order_prediction, 1)
      IN /\ \A a, b \in Indices(out) : a < b => out[a][7] <= out[b][7]
         /\ Len(out) = Len(stamped)
         /\ \A p \in 0..(Len(order_prediction) - 1) :
               AtPosition(out, p) = AtPosition(stamped, p)

\* three regions: the first entry reports position 1 and the other two
\* both position 0, and these two follow each other in the output as they
\* were stamped
C24_Witness ==
    /\ Reconciled
    /\ Len(order_prediction) = 3
    /\ order_prediction[1].position = 1
    /\ order_prediction[2].position = 0
    /\ order_prediction[3].position = 0
    /\ Len(ordered_original_layout_regions_scaled) = 3
    /\ ordered_original_layout_regions_scaled[1][6] = 1
    /\ ordered_original_layout_regions_scaled[2][6] = 2
    /\ ordered_original_layout_regions_scaled[3][6] = 0

(***************************************************************************)
(* Further properties of the table decomposer.                             *)
(***************************************************************************)
\* C25: the candidate cells of a Table T are exactly the line boxes c of the
\* page with T.x1 <= c.x1 < c.x2 <= T.x2 and T.y1 <= c.y1 < c.y2 <= T.y2,
\* each moved by (-T.x1, -T.y1); so every candidate has
\* 0 <= x1 < x2 <= width(T) and 0 <= y1 < y2 <= height(T).
C25_CandidatesInsideTable ==
    pc \in {"recognize", "emitted"} =>
      /\ Len(table_cells_list) = Len(TableRegions(final_adjusted_boxes))
      /\ \A k \in Indices(table_cells_list) :
            LET T == NthTable(k)
                inside == {c \in {sparse_line_bboxes[i] : i \in Indices(sparse_line_bboxes)} :
                             /\ T[1] <= c[1] /\ c[1] < c[3] /\ c[3] <= T[3]
                             /\ T[2] <= c[2] /\ c[2] < c[4] /\ c[4] <= T[4]}
                cands == {table_cells_list[k][c].bbox : c \in Indices(table_cells_list[k])}
            IN /\ cands = {<<c[1] - T[1], c[2] - T[2], c[3] - T[1], c[4] - T[2]>> :
                              c \in inside}
               /\ Len(table_cells_list[k]) = Cardinality(inside)
               /\ \A b \in cands :
                     /\ 0 <= b[1] /\ b[1] < b[3] /\ b[3] <= T[3] - T[1]
                     /\ 0 <= b[2] /\ b[2] < b[4] /\ b[4] <= T[4] - T[2]

\* a table right of the page's corner on a page with three line boxes, two
\* of them inside the table and one reaching below it
C25_Witness ==
    /\ pc = "recognize"
    /\ Len(sparse_line_bboxes) = 3
    /\ Len(table_cells_list) >= 1
    /\ Rect(NthTable(1)) = <<1, 0, 3, 2>>
    /\ Len(table_cells_list[1]) = 2
    /\ table_cells_list[1][1].bbox = <<0, 1, 1, 2>>
    /\ table_cells_list[1][2].bbox = <<1, 0, 2, 1>>

(***************************************************************************)
(* Further properties of the expander.                                     *)
(***************************************************************************)
\* region i of a copy is held by another region of that copy
Blocked(bs, i) == \E j \in Indices(bs) : i /= j /\ rectOverlap(Rect(bs[i]), Rect(bs[j]))

VerticalPassStopped == pc \in {"horizontal", "merge", "expanded"}
HorizontalPassStopped == pc \in {"merge", "expanded"}

\* C26: when a pass has stopped, every region of its copy labelled outside
\* {Picture, Figure} either overlaps another region of the copy or has both
\* its edges on the pass's axis at or beyond the page limits.
C26_StoppedMeansBlockedOrFull ==
    /\ VerticalPassStopped =>
          \A i \in Growing(adjusted_boxes_vertical) :
              \/ Blocked(adjusted_boxes_vertical, i)
              \/ /\ adjusted_boxes_vertical[i][2] <= 0
                 /\ adjusted_boxes_vertical[i][4] >= image_bbox[4]
    /\ HorizontalPassStopped =>
          \A i \in Growing(adjusted_boxes_horizontal) :
              \/ Blocked(adjusted_boxes_horizontal, i)
              \/ /\ adjusted_boxes_horizontal[i][1] <= 0
                 /\ adjusted_boxes_horizontal[i][3] >= image_bbox[3]

\* both passes have stopped after more than one sweep each; in the
\* horizontal copy a region that grew is short of the page's right edge and
\* held by an overlap, and in the vertical copy a region spans the page's
\* height and overlaps nothing
C26_Witness ==
    /\ pc = "merge"
    /\ v_sweeps >= 2
    /\ h_sweeps >= 2
    /\ \E j \in Growing(adjusted_boxes_horizontal) :
          /\ adjusted_boxes_horizontal[j] /= CallInput[j]
          /\ adjusted_boxes_horizontal[j][3] < image_bbox[3]
          /\ Blocked(adjusted_boxes_horizontal, j)
    /\ \E i \in Growing(adjusted_boxes_vertical) :
          /\ adjusted_boxes_vertical[i] /= CallInput[i]
          /\ adjusted_boxes_vertical[i][2] = 0
          /\ adjusted_boxes_vertical[i][4] = image_bbox[4]
          /\ ~Blocked(adjusted_boxes_vertical, i)

\* two rectangles have a common region of positive area
ShareInterior(r, q) ==
    /\ Max(r[1], q[1]) < Min(r[3], q[3])
    /\ Max(r[2], q[2]) < Min(r[4], q[4])

\* the pairs that did not overlap when the pass began still share no
\* interior point in the copy bs
ApartStayApart(bs) ==
    \A i, j \in Indices(bs) :
        (i /= j /\ ~rectOverlap(Rect(CallInput[i]), Rect(CallInput[j])))
            => ~ShareInterior(Rect(bs[i]), Rect(bs[j]))

\* the copy after the for loop of the coming sweep has handled boxes 1..m
VerticalSweepUpTo(bs, m) ==
    LET RECURSIVE Upto(_, _)
        Upto(st, i) == IF i > m THEN st
                       ELSE Upto(VerticalStep(st, i, image_bbox[4]), i + 1)
    IN Upto([boxes |-> bs, changes_made |-> FALSE], 1).boxes

HorizontalSweepUpTo(bs, m) ==
    LET RECURSIVE Upto(_, _)
        Upto(st, i) == IF i > m THEN st
                       ELSE Upto(HorizontalStep(st, i, image_bbox[3]), i + 1)
    IN Upto([boxes |-> bs, changes_made |-> FALSE], 1).boxes

\* C27: two regions of a pass's copy that do not overlap by rectOverlap when
\* the pass begins share no interior point at any later point of the pass,
\* between sweeps or between two boxes of one sweep; at most they come to
\* share an edge coordinate.
C27_NoInteriorOverlap ==
    /\ pc \in {"vertical", "horizontal", "merge", "expanded"} =>
          ApartStayApart(adjusted_boxes_vertical)
    /\ pc = "vertical" =>
          \A m \in 0..Len(adjusted_boxes_vertical) :
              ApartStayApart(VerticalSweepUpTo(adjusted_boxes_vertical, m))
    /\ pc \in {"vertical", "horizontal", "merge", "expanded"} =>
          ApartStayApart(adjusted_boxes_horizontal)
    /\ pc = "horizontal" =>
          \A m \in 0..Len(adjusted_boxes_horizontal) :
              ApartStayApart(HorizontalSweepUpTo(adjusted_boxes_horizontal, m))

\* two regions one above the other with a gap between them have grown in
\* the vertical pass until the upper edge of one is the lower edge of the
\* other, over a common stretch of x
C27_Witness ==
    /\ pc = "horizontal"
    /\ Len(adjusted_boxes_vertical) = 2
    /\ ~rectOverlap(Rect(CallInput[1]), Rect(CallInput[2]))
    /\ CallInput[1][4] < CallInput[2][2]
    /\ adjusted_boxes_vertical[1][4] = adjusted_boxes_vertical[2][2]
    /\ Max(adjusted_boxes_vertical[1][1], adjusted_boxes_vertical[2][1])
          < Min(adjusted_boxes_vertical[1][3], adjusted_boxes_vertical[2][3])

\* C28: adjust_bounding_boxes_final returns a list as long as its input in
\* which every index keeps the input's label, id and position, and no step
\* of the call changes the input list or one of its records.
C28_FrameOfExpansion ==
    [][/\ pc' = "expanded" =>
            /\ Len(final_adjusted_boxes') = Len(CallInput)
            /\ \A k \in Indices(CallInput) :
                  /\ final_adjusted_boxes'[k][5] = CallInput[k][5]
                  /\ final_adjusted_boxes'[k][6] = CallInput[k][6]
                  /\ final_adjusted_boxes'[k][7] = CallInput[k][7]
       /\ pc \in {"vertical", "horizontal", "merge"} =>
            /\ ordered_original_layout_regions_scaled' = ordered_original_layout_regions_scaled
            /\ first_result' = first_result]_vars

\* a call on a Picture and a Text region has returned: the Text region has
\* grown on both axes in the result, and the input list is as it was given
C28_Witness ==
    /\ pc = "expanded"
    /\ first_result = None
    /\ ordered_original_layout_regions_scaled =
          << <<2, 2, 3, 3, "Picture", 0, 0>>, <<0, 0, 1, 1, "Text", 1, 1>> >>
    /\ final_adjusted_boxes[1] = <<2, 2, 3, 3, "Picture", 0, 0>>
    /\ final_adjusted_boxes[2][3] > 1
    /\ final_adjusted_boxes[2][4] > 1
    /\ final_adjusted_boxes[2][6] = 1

\* the regions of the final list that stand for region T of the expanded
\* list: T itself, or a table cell whose filename carries T's position
StandingFor(T) ==
    {i \in Indices(final_regions) :
        \/ final_regions[i] = T
        \/ final_regions[i][5] = "a" /\ final_regions[i][6][2] = T[7]}

\* C29: for every Table region of the expanded list the page's final list
\* holds a table cell derived from it or the Table region itself, whatever
\* the table-cell predictor returned and whether or not it raised.
C29_NoTableLost ==
    Emitted => \A i \in TableIndices : StandingFor(final_adjusted_boxes[i]) /= {}

(***************************************************************************)
(* Chunking of a document: process_single_document and process_pdf.        *)
(***************************************************************************)
MAX_PAGES == 16
MaxPageCount == 18
MaxChunkSize == 4

\* range(a, b) as the sequence of its values
PyRange(a, b) == [i \in 1..Max(b - a, 0) |-> a + i - 1]

\* num_chunks = (total_pages + chunk_size - 1) // chunk_size
NumChunksRoundedDown(total_pages, size) == total_pages \div size
NumChunks(total_pages, size) == (total_pages + size - 1) \div size

\* start_page and end_page of process_pdf
StartPage(k, size) == (k - 1) * size
EndPage(k, size, pages, max_pages) ==
    Min(StartPage(k, size) + size, Min(pages, max_pages))

\* process_single_document opens the PDF and counts the chunks
CountChunks ==
    /\ pc = "chunk_open"
    /\ LET total_pages == Min(page_count, MAX_PAGES)
       IN num_chunks' = NumChunks(total_pages, chunk_size)
    /\ chunk_num' = 1
    /\ pc' = "chunk_loop"
    /\ UNCHANGED <<pageVars, batchVars, page_count, chunk_size, pages_in_chunks>>

\* one iteration of "for chunk_num in range(1, num_chunks + 1)": process_pdf
\* works out its page range and prepares these pages
ProcessChunk ==
    /\ pc = "chunk_loop"
    /\ chunk_num <= num_chunks
    /\ LET start_page == StartPage(chunk_num, chunk_size)
           end_page == EndPage(chunk_num, chunk_size, page_count, MAX_PAGES)
       IN pages_in_chunks' = Append(pages_in_chunks, PyRange(start_page, end_page))
    /\ chunk_num' = chunk_num + 1
    /\ UNCHANGED <<pc, pageVars, batchVars, page_count, chunk_size, num_chunks>>

\* the loop over the chunks is exhausted
ChunksDone ==
    /\ pc = "chunk_loop"
    /\ chunk_num > num_chunks
    /\ pc' = "chunk_done"
    /\ UNCHANGED <<pageVars, batchVars, chunkVars>>

InitChunks ==
    /\ pc = "chunk_open"
    /\ FuseIdle
    /\ OrderIdle
    /\ image_bbox = None
    /\ ExpandIdle
    /\ TableIdle
    /\ ExportIdle
    /\ BatchIdle
    /\ page_count \in 0..MaxPageCount
    /\ chunk_size \in 1..MaxChunkSize
    /\ num_chunks = 0
    /\ chunk_num = 0
    /\ pages_in_chunks = <<>>

NextChunks == CountChunks \/ ProcessChunk \/ ChunksDone

SpecChunks == InitChunks /\ [][NextChunks]_vars

RECURSIVE Flatten(_)
\* the page lists of the chunks, one after the other
Flatten(ss) == IF ss = <<>> THEN <<>> ELSE Head(ss) \o Flatten(Tail(ss))

\* ceil(a / b) for b >= 1
Ceil(a, b) == IF a % b = 0 THEN a \div b ELSE (a \div b) + 1

\* C30: the page ranges of the chunks k = 1..ceil(min(page_count,
\* max_pages) / chunk_size), each from (k-1)*chunk_size up to but not
\* including min(k*chunk_size, min(page_count, max_pages)), are non-empty,
\* pairwise disjoint and in increasing order, and together they are the
\* pages 0..min(page_count, max_pages)-1, each once.
C30_ChunksPartitionPages ==
    LET limit == Min(page_count, MAX_PAGES)
    IN /\ pc \in {"chunk_loop", "chunk_done"} =>
            /\ num_chunks = Ceil(limit, chunk_size)
            /\ \A k \in Indices(pages_in_chunks) :
                  /\ pages_in_chunks[k] =
                        PyRange((k - 1) * chunk_size, Min(k * chunk_size, limit))
                  /\ pages_in_chunks[k] /= <<>>
            /\ \A k, l \in Indices(pages_in_chunks) :
                  k < l => \A a \in Indices(pages_in_chunks[k]) :
                             \A b \in Indices(pages_in_chunks[l]) :
                                pages_in_chunks[k][a] < pages_in_chunks[l][b]
       /\ pc = "chunk_done" =>
            /\ Len(pages_in_chunks) = Ceil(limit, chunk_size)
            /\ Flatten(pages_in_chunks) = PyRange(0, limit)

\* a document longer than the page limit cut into chunks of three pages:
\* six chunks were run, the last with the one page left below the limit
C30_Witness ==
    /\ pc = "chunk_done"
    /\ page_count > MAX_PAGES
    /\ chunk_size = 3
    /\ Len(pages_in_chunks) = 6
    /\ pages_in_chunks[6] = <<15>>

====
